---- MODULE Spec2Model ----
(***************************************************************************)
(* Model of the numerical core of rishis-stargazing-guide: the sky         *)
(* visibility functions (skyVisibility), the fisheye projection of         *)
(* SkyViewer, and the comet orbit propagator with its batch evaluation.    *)
(*                                                                         *)
(* A JavaScript number is modelled as a fixed-point integer with Scale     *)
(* units per 1.0, or as one of the three non-finite values NaN, PosInf and *)
(* NegInf.  The Js* and Math* operators follow the IEEE rules for the      *)
(* non-finite values; finite results are rounded to the nearest unit.      *)
(***************************************************************************)
EXTENDS Integers, Sequences, FiniteSets, TLC

(* ------------------------------------------------------------------ *)
(* State                                                                *)
(* ------------------------------------------------------------------ *)

VARIABLES
  vis,     \* the last call of a skyVisibility function: arguments and result
  proj,    \* the last call of the projection: arguments and result
  coord,   \* the last call of equatorialToHorizontal: arguments and result
  orbit,   \* the last call of cometHeliocentricEclipticJ2000, its Newton run
  batch,   \* the running call of computeCometHorizontalPositions
  calls,   \* the calls of core functions made so far, in order of return
  view,    \* the view of SkyViewer: viewAngle, fov and the drag in progress
  bortle,  \* the Bortle state of SkyViewer, the stored slider value and the location
  sat,     \* the satellite TLE loader of SkyViewer and its fetches in flight
  simbad,  \* the cache of the SIMBAD resolver, its clock, its pending lookups and its last response
  cometsApi \* the last request to the comets endpoint and its response

vars == <<vis, proj, coord, orbit, batch, calls, view, bortle, sat, simbad, cometsApi>>

(* ------------------------------------------------------------------ *)
(* Numbers                                                              *)
(* ------------------------------------------------------------------ *)

Scale == 10000

NaN == -2000000003
PosInf == 2000000001
NegInf == -2000000001

IsNaN(x) == x = NaN
IsFinite(x) == x # NaN /\ x # PosInf /\ x # NegInf

Abs(x) == IF x < 0 THEN -x ELSE x
Sign(x) == IF x < 0 THEN -1 ELSE IF x > 0 THEN 1 ELSE 0

(* <<q, r>> with a * b = q * c + r, from h = <<q', r'>> with               *)
(* a * (b \div 2) = q' * c + r'                                            *)
MulDivNatDouble(a, b, c, h) ==
  IF b % 2 = 0
  THEN <<2 * h[1] + ((2 * h[2]) \div c), (2 * h[2]) % c>>
  ELSE <<2 * h[1] + ((2 * h[2]) \div c) + (a \div c)
           + ((((2 * h[2]) % c) + (a % c)) \div c),
         (((2 * h[2]) % c) + (a % c)) % c>>

(* a * b = q * c + r for naturals a, b and c > 0, by binary long          *)
(* multiplication, so that no intermediate value leaves the 32-bit range.  *)
RECURSIVE MulDivNat(_, _, _)
MulDivNat(a, b, c) ==
  IF b = 0 THEN <<0, 0>>
  ELSE IF (a % c) <= 2147483647 \div b
       THEN <<(a \div c) * b + ((a % c) * b) \div c, ((a % c) * b) % c>>
  ELSE MulDivNatDouble(a, b, c, MulDivNat(a, b \div 2, c))

(* the quotient of <<q, r>> rounded half up, for the divisor c > 0 *)
RoundHalfUp(qr, c) == IF 2 * qr[2] >= c THEN qr[1] + 1 ELSE qr[1]

(* round(a * b / c), half away from zero; c # 0 *)
MulDivRound(a, b, c) ==
  Sign(a) * Sign(b) * Sign(c)
    * RoundHalfUp(MulDivNat(Abs(a), Abs(b), Abs(c)), Abs(c))

(* JavaScript arithmetic on numbers *)
JsNeg(a) ==
  IF a = NaN THEN NaN
  ELSE IF a = PosInf THEN NegInf
  ELSE IF a = NegInf THEN PosInf
  ELSE -a

JsAdd(a, b) ==
  IF a = NaN \/ b = NaN THEN NaN
  ELSE IF ~IsFinite(a) /\ ~IsFinite(b) THEN (IF a = b THEN a ELSE NaN)
  ELSE IF ~IsFinite(a) THEN a
  ELSE IF ~IsFinite(b) THEN b
  ELSE a + b

JsSub(a, b) == JsAdd(a, JsNeg(b))

JsMul(a, b) ==
  IF a = NaN \/ b = NaN THEN NaN
  ELSE IF ~IsFinite(a) \/ ~IsFinite(b) THEN
         (IF a = 0 \/ b = 0 THEN NaN
          ELSE IF Sign(a) * Sign(b) > 0 THEN PosInf ELSE NegInf)
  ELSE MulDivRound(a, b, Scale)

JsDiv(a, b) ==
  IF a = NaN \/ b = NaN THEN NaN
  ELSE IF ~IsFinite(a) /\ ~IsFinite(b) THEN NaN
  ELSE IF ~IsFinite(a) THEN (IF Sign(a) * Sign(b) >= 0 THEN PosInf ELSE NegInf)
  ELSE IF ~IsFinite(b) THEN 0
  ELSE IF b = 0 THEN (IF a = 0 THEN NaN ELSE IF a > 0 THEN PosInf ELSE NegInf)
  ELSE MulDivRound(a, Scale, b)

(* the % operator of JavaScript: the result has the sign of the dividend *)
JsMod(a, b) ==
  IF ~IsFinite(a) \/ b = NaN \/ b = 0 THEN NaN
  ELSE IF ~IsFinite(b) THEN a
  ELSE IF a >= 0 THEN a % Abs(b)
  ELSE -((-a) % Abs(b))

(* comparisons: every comparison with NaN is false *)
JsLt(a, b) == a # NaN /\ b # NaN /\ a < b
JsLe(a, b) == a # NaN /\ b # NaN /\ a <= b
JsGt(a, b) == a # NaN /\ b # NaN /\ a > b
JsGe(a, b) == a # NaN /\ b # NaN /\ a >= b

MathMin(a, b) == IF a = NaN \/ b = NaN THEN NaN ELSE IF a < b THEN a ELSE b
MathMax(a, b) == IF a = NaN \/ b = NaN THEN NaN ELSE IF a > b THEN a ELSE b
MathAbs(a) == IF a = NaN THEN NaN ELSE IF a = NegInf THEN PosInf ELSE Abs(a)

(* Math.round: the nearest integer, halves towards +Infinity *)
MathRound(a) ==
  IF ~IsFinite(a) THEN a ELSE ((a + Scale \div 2) \div Scale) * Scale

(* n as a number, for an integer n *)
Num(n) == n * Scale
(* n / d as a number, for integers n and d > 0 *)
Frac(n, d) == MulDivRound(n, Scale, d)

(* undefined (an optional field or argument that is absent) *)
Undefined == -2000000005

(* the ?? operator: the default where the value is absent *)
Nullish(x, dflt) == IF x = Undefined THEN dflt ELSE x

(* Number.isFinite *)
NumberIsFinite(x) == x # Undefined /\ IsFinite(x)

(* ------------------------------------------------------------------ *)
(* Trigonometry in radians                                              *)
(* ------------------------------------------------------------------ *)

MathPI == 31416
TwoPi == 2 * MathPI
HalfPi == MathPI \div 2

FixMul(a, b) == MulDivRound(a, b, Scale)

(* y * (1 - p2/6 * (1 - p2/20 * (1 - p2/42 * (1 - p2/72)))) for p2 = y^2, *)
(* at most 1                                                             *)
SinHorner(y, p2) ==
  MathMin(Scale,
      FixMul(y,
        Scale - (FixMul(p2,
          Scale - (FixMul(p2,
            Scale - (FixMul(p2,
              Scale - (p2 \div 72)) \div 42)) \div 20)) \div 6)))

(* sin y for 0 <= y <= pi/2: the Taylor polynomial to y^9 in Horner form *)
SinSeries(y) == SinHorner(y, FixMul(y, y))

(* sin t for 0 <= t < 2 pi, by the quadrant of t *)
SinQuadrant(t) ==
  IF t <= HalfPi THEN SinSeries(t)
  ELSE IF t <= MathPI THEN SinSeries(MathPI - t)
  ELSE IF t <= MathPI + HalfPi THEN -SinSeries(t - MathPI)
  ELSE -SinSeries(TwoPi - t)

MathSin(x) == IF ~IsFinite(x) THEN NaN ELSE SinQuadrant(x % TwoPi)

MathCos(x) == IF ~IsFinite(x) THEN NaN ELSE MathSin(x + HalfPi)

(* deg * Math.PI / 180 *)
ToRad(deg) == JsDiv(JsMul(deg, MathPI), Num(180))

(* ---- inverse trigonometry, resolved to AngleStep degrees ---- *)

(* the angular resolution of Math.acos, Math.asin and Math.atan2 here: the  *)
(* result is the angle of the grid 0, 5, 10, ... degrees nearest the exact  *)
(* one, which absorbs the rounding of the fixed-point products              *)
AngleStep == Num(5)
HalfTurnSteps == Num(180) \div AngleStep

CosGrid == [k \in 0..HalfTurnSteps |-> MathCos(ToRad(k * AngleStep))]
SinGrid ==
  [k \in (-HalfTurnSteps)..HalfTurnSteps |-> MathSin(ToRad(k * AngleStep))]

(* the integer square root of n, lo <= sqrt(n) < hi, by bisection *)
RECURSIVE ISqrtBetween(_, _, _)
ISqrtBetween(n, lo, hi) ==
  IF hi - lo <= 1 THEN lo
  ELSE IF ((lo + hi) \div 2) * ((lo + hi) \div 2) <= n
       THEN ISqrtBetween(n, (lo + hi) \div 2, hi)
       ELSE ISqrtBetween(n, lo, (lo + hi) \div 2)

ISqrt(n) == ISqrtBetween(n, 0, 46341)

(* the grid angle whose cosine is nearest x: the cosines decrease along   *)
(* the grid, so its index is the number of midpoints above x              *)
AcosIndex(x) ==
  Cardinality({i \in 1..HalfTurnSteps : 2 * x < CosGrid[i - 1] + CosGrid[i]})

MathAcos(x) ==
  IF x = NaN \/ x > Scale \/ x < -Scale THEN NaN
  ELSE ToRad(AcosIndex(x) * AngleStep)

MathAsin(x) ==
  IF x = NaN \/ x > Scale \/ x < -Scale THEN NaN
  ELSE ToRad((Cardinality({i \in (1 - HalfTurnSteps \div 2)
                                  ..(HalfTurnSteps \div 2) :
                             2 * x > SinGrid[i - 1] + SinGrid[i]})
                - HalfTurnSteps \div 2) * AngleStep)

(* the angle of (x, y) from the x axis, given xs a scaled-down x and h the  *)
(* length of the equally scaled-down vector                                *)
Atan2OfLength(y, x, xs, h) ==
  (IF y < 0 THEN -1 ELSE 1)
    * ToRad(AcosIndex(MathMax(-Scale, MathMin(Scale,
              IF h = 0 THEN Sign(x) * Scale ELSE (xs * Scale) \div h)))
            * AngleStep)

(* the same with the vector scaled down by k, so that its squares stay in  *)
(* range                                                                   *)
Atan2Scaled(y, x, k) ==
  Atan2OfLength(y, x, x \div k,
                ISqrt((x \div k) * (x \div k) + (y \div k) * (y \div k)))

(* Math.atan2: the angle of (x, y) from the x axis, as the arc cosine of   *)
(* x / hypot(x, y) with the sign of y; atan2(0, 0) = 0                      *)
MathAtan2(y, x) ==
  IF y = NaN \/ x = NaN THEN NaN
  ELSE IF y = 0 /\ x = 0 THEN 0
  ELSE Atan2Scaled(y, x, (MathMax(Abs(x), Abs(y)) \div 30000) + 1)

(* Math.hypot for whole-number arguments (pixels) *)
MathHypot(a, b) ==
  IF a = NaN \/ b = NaN THEN NaN
  ELSE Num(ISqrt((a \div Scale) * (a \div Scale)
                  + (b \div Scale) * (b \div Scale)))

(* ------------------------------------------------------------------ *)
(* skyVisibility                                                        *)
(* ------------------------------------------------------------------ *)

BORTLE_LIMITING_MAG ==
  <<80000, 76000, 71000, 66000, 61000, 56000, 51000, 46000, 41000>>

(* tab[idx] for a JavaScript array: undefined unless idx is an integer    *)
(* index within the array                                                  *)
ArrayGet(tab, idx) ==
  IF IsFinite(idx) /\ idx % Scale = 0 /\ idx >= 0 /\ idx \div Scale < Len(tab)
  THEN tab[(idx \div Scale) + 1]
  ELSE Undefined

clamp01(v) == MathMax(0, MathMin(Scale, v))

lerp(a, b, t) == JsAdd(a, JsMul(JsSub(b, a), t))

(* mutant: full night already at nautical twilight (-12 degrees) *)
twilightFactor_nightAtNautical(sunAltitudeDeg) ==
  clamp01(JsDiv(JsSub(JsNeg(sunAltitudeDeg), Num(6)), Num(6)))

twilightFactor(sunAltitudeDeg) ==
  clamp01(JsDiv(JsSub(JsNeg(sunAltitudeDeg), Num(6)), Num(12)))

(* mutant: no moonlight at all while the Moon is below -2 degrees *)
moonWashFactor_zeroBelowHorizon(moonAltitudeDeg, moonIlluminationFrac) ==
  IF ~NumberIsFinite(moonAltitudeDeg) \/ ~NumberIsFinite(moonIlluminationFrac)
  THEN 0
  ELSE IF moonAltitudeDeg < -Num(2) THEN 0
  ELSE clamp01(JsMul(clamp01(moonIlluminationFrac),
         JsAdd(Frac(35, 100),
               JsMul(Frac(65, 100),
                     clamp01(JsDiv(JsAdd(moonAltitudeDeg, Num(2)),
                                   Num(22)))))))

(* illum = clamp01(moonIlluminationFrac) and                              *)
(* above = clamp01((alt + 2) / 22) in place                               *)
moonWashFactor(moonAltitudeDeg, moonIlluminationFrac) ==
  IF ~NumberIsFinite(moonAltitudeDeg) \/ ~NumberIsFinite(moonIlluminationFrac)
  THEN 0
  ELSE clamp01(JsMul(clamp01(moonIlluminationFrac),
         JsAdd(Frac(35, 100),
               JsMul(Frac(65, 100),
                     clamp01(JsDiv(JsAdd(moonAltitudeDeg, Num(2)),
                                   Num(22)))))))

(* mutant: the class used as the array index without the - 1 *)
getBortleLimitingMagnitude_indexOffByOne(bortleScale) ==
  Nullish(ArrayGet(BORTLE_LIMITING_MAG, MathRound(bortleScale)), Frac(60, 10))

getBortleLimitingMagnitude(bortleScale) ==
  Nullish(ArrayGet(BORTLE_LIMITING_MAG,
                   JsSub(MathRound(bortleScale), Num(1))),
          Frac(60, 10))

(* mutant: the blend runs from the Bortle base towards 2.5 *)
effectiveNakedEyeLimitingMagnitude_lerpSwapped(inputs) ==
  MathMax(-Frac(15, 10), MathMin(Num(9),
    JsSub(lerp(getBortleLimitingMagnitude(inputs.bortleScale), Frac(25, 10),
               twilightFactor(inputs.sunAltitudeDeg)),
          JsMul(Num(2), moonWashFactor(inputs.moonAltitudeDeg,
                                       inputs.moonIlluminationFrac)))))

(* base, tw, mw and lim in place: lim = lerp(2.5, base, tw) - 2.0 * mw *)
effectiveNakedEyeLimitingMagnitude(inputs) ==
  MathMax(-Frac(15, 10), MathMin(Num(9),
    JsSub(lerp(Frac(25, 10), getBortleLimitingMagnitude(inputs.bortleScale),
               twilightFactor(inputs.sunAltitudeDeg)),
          JsMul(Num(2), moonWashFactor(inputs.moonAltitudeDeg,
                                       inputs.moonIlluminationFrac)))))

(* the altitude grid of the table below: 2.5 degrees *)
AltGrid == Frac(25, 10)

(* Math.pow(alt + 6.07995, -1.6364), tabulated for the altitudes          *)
(* -2.5, 0, 2.5, ..., 90 degrees (the values the Kasten-Young formula is   *)
(* evaluated at in this model), in units of 1/Scale                        *)
PowKastenYoung(alt) ==
  <<1241, 521, 297, 195, 140, 106, 84, 68, 57, 48, 41, 36, 32, 28, 25, 23,
    21, 19, 17, 16, 15, 14, 13, 12, 11, 11, 10, 9, 9, 8, 8, 8, 7, 7, 7, 6,
    6, 6>>[(alt \div AltGrid) + 2]

(* 1 / max(1e-4, sin(alt) + 0.50572 * (alt + 6.07995)^-1.6364) for the    *)
(* clamped altitude alt                                                    *)
AirmassAt(alt) ==
  JsDiv(Num(1),
        MathMax(1, JsAdd(MathSin(ToRad(alt)),
                         JsMul(Frac(50572, 100000), PowKastenYoung(alt)))))

airmassKastenYoung(altitudeDeg) ==
  IF ~NumberIsFinite(altitudeDeg) THEN PosInf
  ELSE IF altitudeDeg <= -Num(5) THEN PosInf
  ELSE AirmassAt(MathMax(-Frac(49, 10), MathMin(Num(90), altitudeDeg)))

(* mutant: no sentinel, the formula is used at and below the horizon too *)
extinctionDeltaMagnitude_noSentinel(altitudeDeg, kMagPerAirmass) ==
  MathMax(0, JsMul(kMagPerAirmass,
                   MathMax(0, JsSub(airmassKastenYoung(altitudeDeg),
                                    Num(1)))))

extinctionDeltaMagnitude(altitudeDeg, kMagPerAirmass) ==
  IF JsLe(altitudeDeg, 0) THEN Num(10)
  ELSE MathMax(0, JsMul(kMagPerAirmass,
                        MathMax(0, JsSub(airmassKastenYoung(altitudeDeg),
                                         Num(1)))))

(* mutant: the visibility comparison is strict *)
StarResult_strict(effectiveMagnitude, limitingMagnitude, marginMag, alphaScale) ==
  [visible |-> JsLt(effectiveMagnitude, JsAdd(limitingMagnitude, marginMag)),
   effectiveMagnitude |-> effectiveMagnitude,
   limitingMagnitude |-> limitingMagnitude, alphaScale |-> alphaScale]

(* the object starVisibility returns, lines 82-88 *)
StarResult(effectiveMagnitude, limitingMagnitude, marginMag, alphaScale) ==
  [visible |-> JsLe(effectiveMagnitude, JsAdd(limitingMagnitude, marginMag)),
   effectiveMagnitude |-> effectiveMagnitude,
   limitingMagnitude |-> limitingMagnitude, alphaScale |-> alphaScale]

starVisibility(starMagnitude, inputs, opts) ==
  StarResult(
    JsAdd(starMagnitude,
          extinctionDeltaMagnitude(inputs.targetAltitudeDeg,
                                   Nullish(opts.extinctionK, Frac(20, 100)))),
    effectiveNakedEyeLimitingMagnitude(inputs),
    Nullish(opts.marginMag, Frac(20, 100)),
    clamp01(JsMul(twilightFactor(inputs.sunAltitudeDeg),
                  JsSub(Num(1),
                        JsMul(Frac(70, 100),
                              moonWashFactor(inputs.moonAltitudeDeg,
                                             inputs.moonIlluminationFrac))))))

(* lm in place: 19.0 + (max(0, min(9, limitingMagnitude)) - 4.0) * 0.80 *)
estimateSkyBackgroundMagArcsec2(limitingMagnitude) ==
  JsAdd(Num(19),
        JsMul(JsSub(MathMax(0, MathMin(Num(9), limitingMagnitude)), Num(4)),
              Frac(80, 100)))

(* Math.log10, tabulated for the areas pi * (size / 2)^2 of the angular    *)
(* sizes 0.2, 1, 2, 10 and 30 arcminutes, in units of 1/Scale              *)
MathLog10(x) ==
  CASE x = 314 -> -15031
    [] x = 7854 -> -1049
    [] x = 31416 -> 4972
    [] x = 785400 -> 18951
    [] x = 7068600 -> 28493

(* sbMagArcsec2 of lines 109-116, with ext, size and areaArcmin2 in place  *)
DsoSurfaceBrightness(dso, inputs, opts) ==
  JsAdd(JsAdd(JsAdd(dso.magnitude,
                    extinctionDeltaMagnitude(inputs.targetAltitudeDeg,
                                             Nullish(opts.extinctionK,
                                                     Frac(20, 100)))),
              JsMul(Frac(25, 10),
                    MathLog10(MathMax(1,
                      JsMul(MathPI,
                            JsMul(JsDiv(MathMax(Frac(2, 10), dso.sizeArcmin),
                                        Num(2)),
                                  JsDiv(MathMax(Frac(2, 10), dso.sizeArcmin),
                                        Num(2)))))))),
        Frac(889, 100))

(* alpha of lines 121-125 from the surface brightness and the sky          *)
(* background: contrast, altBoost and raw in place                         *)
DsoAlpha(inputs, sbMagArcsec2, skyBg) ==
  clamp01(JsMul(JsMul(JsMul(
      clamp01(JsDiv(JsAdd(JsSub(JsAdd(skyBg, Frac(12, 10)), sbMagArcsec2),
                          Num(1)),
                    Num(3))),
      clamp01(JsDiv(JsAdd(inputs.targetAltitudeDeg, Num(2)), Num(25)))),
      twilightFactor(inputs.sunAltitudeDeg)),
      JsSub(Num(1), JsMul(Frac(85, 100),
                          moonWashFactor(inputs.moonAltitudeDeg,
                                         inputs.moonIlluminationFrac)))))

dsoDetectability(dso, inputs, opts) ==
  [visible |->
     JsGt(DsoAlpha(inputs, DsoSurfaceBrightness(dso, inputs, opts),
                   estimateSkyBackgroundMagArcsec2(
                     effectiveNakedEyeLimitingMagnitude(inputs))),
          Frac(12, 100)),
   alpha |->
     DsoAlpha(inputs, DsoSurfaceBrightness(dso, inputs, opts),
              estimateSkyBackgroundMagArcsec2(
                effectiveNakedEyeLimitingMagnitude(inputs))),
   surfaceBrightnessMagArcsec2 |-> DsoSurfaceBrightness(dso, inputs, opts),
   skyBackgroundMagArcsec2 |->
     estimateSkyBackgroundMagArcsec2(
       effectiveNakedEyeLimitingMagnitude(inputs))]

(* ------------------------------------------------------------------ *)
(* SkyViewer: fisheye projection                                        *)
(* ------------------------------------------------------------------ *)

(* the angular distance of the target from the view centre, as computed by *)
(* projectToScreen, from the four angles in radians                        *)
ProjAngularDistance(altRad, azRad, viewAltRad, viewAzRad) ==
  MathAcos(MathMax(-Scale, MathMin(Scale,
    JsAdd(JsMul(MathSin(altRad), MathSin(viewAltRad)),
          JsMul(JsMul(MathCos(altRad), MathCos(viewAltRad)),
                MathCos(JsSub(azRad, viewAzRad)))))))

ProjMaxAngle(fov) == JsDiv(JsMul(JsDiv(fov, Num(2)), MathPI), Num(180))

(* mutant: no field-of-view test *)
projectToScreen_noFovGate(altitude, azimuth, width, height, viewAngle, fov) ==
  [x |-> JsDiv(width, Num(2)), y |-> JsDiv(height, Num(2)), visible |-> TRUE]

(* the bearing of the target from the view centre: Math.atan2(y, x) *)
ProjBearing(altRad, azRad, viewAltRad, viewAzRad) ==
  MathAtan2(JsMul(MathSin(JsSub(azRad, viewAzRad)), MathCos(altRad)),
            JsSub(JsMul(MathCos(viewAltRad), MathSin(altRad)),
                  JsMul(JsMul(MathSin(viewAltRad), MathCos(altRad)),
                        MathCos(JsSub(azRad, viewAzRad)))))

(* the result for a target at the distance r (in pixels) and bearing from  *)
(* the centre of the canvas, after the field-of-view test                  *)
ProjScreenPoint(angularDistance, maxAngle, r, bearing, width, height) ==
  IF JsGt(angularDistance, maxAngle)
  THEN [x |-> 0, y |-> 0, visible |-> FALSE]
  ELSE [x |-> JsAdd(JsDiv(width, Num(2)), JsMul(r, MathSin(bearing))),
        y |-> JsSub(JsDiv(height, Num(2)), JsMul(r, MathCos(bearing))),
        visible |-> TRUE]

(* r = (angularDistance / maxAngle) * maxRadius with                       *)
(* maxRadius = Math.hypot(width, height) / 2                               *)
ProjRadians(altRad, azRad, viewAltRad, viewAzRad, width, height, fov) ==
  ProjScreenPoint(
    ProjAngularDistance(altRad, azRad, viewAltRad, viewAzRad),
    ProjMaxAngle(fov),
    JsMul(JsDiv(ProjAngularDistance(altRad, azRad, viewAltRad, viewAzRad),
                ProjMaxAngle(fov)),
          JsDiv(MathHypot(width, height), Num(2))),
    ProjBearing(altRad, azRad, viewAltRad, viewAzRad),
    width, height)

projectToScreen(altitude, azimuth, width, height, viewAngle, fov) ==
  ProjRadians(ToRad(altitude), ToRad(azimuth), ToRad(viewAngle.altitude),
              ToRad(viewAngle.azimuth), width, height, fov)

(* The field-of-view test of the four other projections, each from the   *)
(* angular distance and maxAngle it computes by the expressions of         *)
(* projectToScreen (the inline copy of drawAllStars with the factor        *)
(* DEG2RAD = Math.PI / 180 in place of * Math.PI / 180).                    *)
(* projectToScreenWithDistance: if (angularDistance > maxAngle) return     *)
(* {visible: false}, else {visible: true}                                  *)
projectToScreenWithDistanceVisible(angularDistance, maxAngle) ==
  IF JsGt(angularDistance, maxAngle) THEN FALSE ELSE TRUE

(* projectToScreenUnclamped: visible: angularDistance <= maxAngle *)
projectToScreenUnclampedVisible(angularDistance, maxAngle) ==
  JsLe(angularDistance, maxAngle)

(* drawAllStars: if (angularDistance > maxAngle) continue, else the star   *)
(* is projected and drawn                                                  *)
drawAllStarsInView(angularDistance, maxAngle) ==
  IF JsGt(angularDistance, maxAngle) THEN FALSE ELSE TRUE

(* findVisibilityBoundary: isVisibleAt returns angularDistance <= maxAngle *)
isVisibleAt(angularDistance, maxAngle) == JsLe(angularDistance, maxAngle)

(* ------------------------------------------------------------------ *)
(* Coordinate transformations                                           *)
(* ------------------------------------------------------------------ *)

(* degrees * (Math.PI / 180), evaluated as degrees * Math.PI / 180 so that *)
(* the factor keeps its precision                                          *)
toRadians(degrees) == JsDiv(JsMul(degrees, MathPI), Num(180))

(* radians * (180 / Math.PI), evaluated as radians * 180 / Math.PI *)
toDegrees(radians) == JsDiv(JsMul(radians, Num(180)), MathPI)

normalizeAngle(degrees) ==
  IF JsLt(JsMod(degrees, Num(360)), 0)
  THEN JsAdd(JsMod(degrees, Num(360)), Num(360))
  ELSE JsMod(degrees, Num(360))

(* a Date by its UTC fields; utcMonth is 0-based as getUTCMonth() returns it *)
UtcDate(year, utcMonth, day, hour, minute, second) ==
  [year |-> year, utcMonth |-> utcMonth, day |-> day,
   hour |-> hour, minute |-> minute, second |-> second]

(* the day number of the calendar day, for the year y and month m as      *)
(* shifted by calculateLST (January and February count as months 13 and   *)
(* 14 of the year before)                                                 *)
JulianDayOf(y, m, day) ==
  ((36525 * (y + 4716)) \div 100) + ((306001 * (m + 1)) \div 10000)
    + day + (2 - (y \div 100) + ((y \div 100) \div 4)) - 1524

(* the whole days of the Julian Date of calculateLST: jd + 0.5 *)
JulianDayNumber(date) ==
  JulianDayOf(IF date.utcMonth + 1 <= 2 THEN date.year - 1 ELSE date.year,
              IF date.utcMonth + 1 <= 2 THEN date.utcMonth + 13
              ELSE date.utcMonth + 1,
              date.day)

(* the time of day in hours: hour + minute / 60 + second / 3600 *)
UtcHours(date) ==
  Num(date.hour) + Frac(date.minute, 60) + Frac(date.second, 3600)

(* calculateLST with an observer that is module state: each call made    *)
(* before has moved it one degree to the east                              *)
calculateLST_sharedObserver(date, longitude) ==
  normalizeAngle(JsAdd(
    Frac(28046062, 100000)
      + MulDivRound(Num(JulianDayNumber(date) - 2451545) - (Scale \div 2)
                      + MulDivRound(UtcHours(date), 1, 24),
                    36098565, 100000),
    JsAdd(longitude, Num(Len(calls)))))

(* d = jd - 2451545.0 and gmst = 280.46061837 + 360.98564736629 * d in      *)
(* place                                                                   *)
calculateLST(date, longitude) ==
  normalizeAngle(JsAdd(
    Frac(28046062, 100000)
      + MulDivRound(Num(JulianDayNumber(date) - 2451545) - (Scale \div 2)
                      + MulDivRound(UtcHours(date), 1, 24),
                    36098565, 100000),
    longitude))

(* lines 120-123: the azimuth by the sign of sin(hour angle) *)
AzimuthByHourAngle(haRad, azimuth0) ==
  IF JsGt(MathSin(haRad), 0) THEN JsSub(Num(360), azimuth0) ELSE azimuth0

(* lines 112-125, from sinAlt: the altitude is the arc sine of sinAlt,    *)
(* which is not clamped                                                   *)
HorizontalOfSinAlt(haRad, decRad, latRad, sinAlt) ==
  [altitude |-> toDegrees(MathAsin(sinAlt)),
   azimuth |-> normalizeAngle(AzimuthByHourAngle(haRad,
     toDegrees(MathAcos(MathMax(-Scale, MathMin(Scale,
       JsDiv(JsSub(MathSin(decRad), JsMul(MathSin(latRad), sinAlt)),
             JsMul(MathCos(latRad),
                   MathCos(toRadians(toDegrees(MathAsin(sinAlt))))))))))))]

(* lines 108-111 *)
HorizontalOfRadians(haRad, decRad, latRad) ==
  HorizontalOfSinAlt(haRad, decRad, latRad,
    JsAdd(JsMul(MathSin(decRad), MathSin(latRad)),
          JsMul(JsMul(MathCos(decRad), MathCos(latRad)), MathCos(haRad))))

equatorialToHorizontal(equatorial, observer, date) ==
  HorizontalOfRadians(
    toRadians(normalizeAngle(JsSub(calculateLST(date, observer.longitude),
                                   equatorial.ra))),
    toRadians(equatorial.dec),
    toRadians(observer.latitude))

(* lines 155-167, from decRad: Math.max(1e-9, cosDec) keeps the divisor    *)
(* positive; 1e-9 is below 1/Scale and the least positive number stands    *)
(* for it                                                                  *)
EquatorialOfDecRad(lst, altRad, azRad, latRad, decRad) ==
  [ra |-> normalizeAngle(JsSub(lst,
            normalizeAngle(toDegrees(MathAtan2(
              JsDiv(JsNeg(JsMul(MathSin(azRad), MathCos(altRad))),
                    MathMax(1, MathCos(decRad))),
              JsDiv(JsSub(MathSin(altRad),
                          JsMul(MathSin(latRad), MathSin(decRad))),
                    JsMul(MathCos(latRad),
                          MathMax(1, MathCos(decRad))))))))),
   dec |-> toDegrees(decRad)]

horizontalToEquatorial(horizontal, observer, date) ==
  EquatorialOfDecRad(
    calculateLST(date, observer.longitude),
    toRadians(horizontal.altitude),
    toRadians(horizontal.azimuth),
    toRadians(observer.latitude),
    MathAsin(MathMax(-Scale, MathMin(Scale,
      JsAdd(JsMul(MathSin(toRadians(horizontal.altitude)),
                  MathSin(toRadians(observer.latitude))),
            JsMul(JsMul(MathCos(toRadians(horizontal.altitude)),
                        MathCos(toRadians(observer.latitude))),
                  MathCos(toRadians(horizontal.azimuth))))))))

(* ------------------------------------------------------------------ *)
(* Comets: orbit propagation                                            *)
(* ------------------------------------------------------------------ *)

(* null, the failure value of the comet functions *)
Null == [null |-> TRUE]

(* Math.sqrt *)
MathSqrt(x) ==
  IF x = NaN \/ x = NegInf \/ x < 0 THEN NaN
  ELSE IF x = PosInf THEN PosInf
  ELSE IF x <= 200000 THEN ISqrt(x * Scale)
  ELSE ISqrt(x) * ISqrt(Scale)

(* deg * DEG2RAD with DEG2RAD = Math.PI / 180, evaluated as deg * Math.PI  *)
(* / 180 so that the factor keeps its precision                            *)
DegToRad(deg) == JsDiv(JsMul(deg, MathPI), Num(180))

OBLIQUITY_J2000_DEG == Frac(23439291, 1000000)

(* x cos - y sin and x sin + y cos: the rotation of (x, y) by the angle     *)
(* with that cosine and sine                                               *)
Rotate(x, y, cos, sin) ==
  [x |-> JsSub(JsMul(x, cos), JsMul(y, sin)),
   y |-> JsAdd(JsMul(x, sin), JsMul(y, cos))]

rotateEclipticToEquatorialJ2000(ecl) ==
  [x |-> ecl.x,
   y |-> Rotate(ecl.y, ecl.z, MathCos(DegToRad(OBLIQUITY_J2000_DEG)),
                MathSin(DegToRad(OBLIQUITY_J2000_DEG))).x,
   z |-> Rotate(ecl.y, ecl.z, MathCos(DegToRad(OBLIQUITY_J2000_DEG)),
                MathSin(DegToRad(OBLIQUITY_J2000_DEG))).y]

(* the ISO strings of the catalogue this model draws from, with the UTC   *)
(* date each one denotes; any other string does not parse                 *)
IsoDates ==
  [s \in {"1999-12-02T00:00:00Z", "2000-01-01T12:00:00Z",
          "2000-10-02T12:00:00Z"} |->
     CASE s = "1999-12-02T00:00:00Z" -> UtcDate(1999, 11, 2, 0, 0, 0)
       [] s = "2000-01-01T12:00:00Z" -> UtcDate(2000, 0, 1, 12, 0, 0)
       [] s = "2000-10-02T12:00:00Z" -> UtcDate(2000, 9, 2, 12, 0, 0)]

(* date.getTime() in days since 1970-01-01T00:00Z (the code's             *)
(* milliseconds / 86400000); NaN for an invalid Date                      *)
InvalidDate == UtcDate(NaN, NaN, NaN, NaN, NaN, NaN)

DateGetTimeDays(date) ==
  IF date = InvalidDate THEN NaN
  ELSE Num(JulianDayNumber(date) - 2440588)
         + MulDivRound(UtcHours(date), 1, 24)

(* ---- astroMath.ts: sidereal time ---- *)

(* Doubles near 360 are 2^-44 apart, far below 1/Scale. Where the rounding *)
(* of a sum to that spacing decides the result, a number is a record       *)
(* [deg, ulps]: the grid value deg, a count of 1/Scale taken as a double   *)
(* with an even significand (as 360 is), and a small whole count ulps of   *)
(* 2^-46, the spacing of doubles in [64, 128), off it.                     *)

(* the spacing of doubles at deg in units of 2^-46, for |deg| < 1024; a    *)
(* count of ulps is whole, so that a finer spacing below 64 rounds nothing *)
DblSpacing(deg) ==
  IF Abs(deg) < Num(128) THEN 1
  ELSE IF Abs(deg) < Num(256) THEN 2
  ELSE IF Abs(deg) < Num(512) THEN 4
  ELSE 8

(* the multiple of s nearest ulps, a tie going to the even multiple *)
DblNearest(ulps, s) ==
  IF 2 * (ulps % s) < s THEN (ulps \div s) * s
  ELSE IF 2 * (ulps % s) > s THEN ((ulps \div s) + 1) * s
  ELSE IF (ulps \div s) % 2 = 0 THEN (ulps \div s) * s
  ELSE ((ulps \div s) + 1) * s

(* a + b: the exact sum rounded to the nearest double; a sum with the grid *)
(* value 0 is a few ulps and exact                                         *)
DblAdd(a, b) ==
  IF ~IsFinite(JsAdd(a.deg, b.deg)) THEN [deg |-> JsAdd(a.deg, b.deg), ulps |-> 0]
  ELSE [deg |-> a.deg + b.deg,
        ulps |-> DblNearest(a.ulps + b.ulps, DblSpacing(a.deg + b.deg))]

(* a % 360, which is exact: the remainder has the sign of the dividend *)
DblMod360(a) ==
  IF ~IsFinite(a.deg) THEN [deg |-> NaN, ulps |-> 0]
  ELSE IF a.deg # 0 /\ a.deg % Num(360) = 0 /\ Sign(a.ulps) = -Sign(a.deg)
  THEN [deg |-> Sign(a.deg) * Num(360), ulps |-> a.ulps]
  ELSE [deg |-> JsMod(a.deg, Num(360)), ulps |-> a.ulps]

(* normalizeAngle of astroMath.ts, lines 5-8 *)
astroNormalizeAngle(deg) ==
  IF DblMod360(deg).deg < 0 \/ (DblMod360(deg).deg = 0 /\ DblMod360(deg).ulps < 0)
  THEN DblAdd(DblMod360(deg), [deg |-> Num(360), ulps |-> 0])
  ELSE DblMod360(deg)

(* lines 15 and 18-21: d = date.getTime() / 86400000 + 2440587.5 -         *)
(* 2451545.0 in place, and gst = 280.46061837 + 360.98564736629 * d        *)
greenwichSiderealTime(date) ==
  IF IsNaN(DateGetTimeDays(date)) THEN [deg |-> NaN, ulps |-> 0]
  ELSE astroNormalizeAngle(
         [deg |-> Frac(28046062, 100000)
                    + MulDivRound(DateGetTimeDays(date) - Frac(109575, 10),
                                  36098565, 100000),
          ulps |-> 0])

localSiderealTime(date, longitude) ==
  astroNormalizeAngle(DblAdd(greenwichSiderealTime(date), longitude))

(* new Date(isoString) *)
NewDate(iso) ==
  IF iso \in DOMAIN IsoDates THEN IsoDates[iso] ELSE InvalidDate

perihelionTime(elements) ==
  IF IsNaN(DateGetTimeDays(NewDate(elements.perihelionTimeUtc))) THEN Null
  ELSE NewDate(elements.perihelionTimeUtc)

(* the convergence threshold of the Newton iteration: 1e-12 in the code,   *)
(* here the size below which a step is rounding of the fixed-point         *)
(* quotient -f / fp (fp >= 1 - e)                                          *)
KeplerTolerance == 20
KeplerMaxIter == 12

(* the loop of solveKeplerElliptic from iteration iter on: the final E,    *)
(* the number of iterations run and the last step dE                       *)
RECURSIVE KeplerLoop(_, _, _, _, _)

(* the end of one round, lines 59-60, with the step dE = -f / fp *)
(* mutant: the loop is left as soon as the step is below half a radian *)
KeplerStep_looseBreak(M, e, E, iter, dE) ==
  IF JsLt(MathAbs(dE), Frac(1, 2))
  THEN [E |-> JsAdd(E, dE), iter |-> iter + 1, dE |-> dE]
  ELSE KeplerLoop(M, e, JsAdd(E, dE), iter + 1, dE)

KeplerStep(M, e, E, iter, dE) ==
  IF JsLt(MathAbs(dE), KeplerTolerance)
  THEN [E |-> JsAdd(E, dE), iter |-> iter + 1, dE |-> dE]
  ELSE KeplerLoop(M, e, JsAdd(E, dE), iter + 1, dE)

KeplerLoop(M, e, E, iter, lastDE) ==
  IF ~(iter < KeplerMaxIter) THEN [E |-> E, iter |-> iter, dE |-> lastDE]
  ELSE KeplerStep(M, e, E, iter,
                  JsDiv(JsNeg(JsSub(JsSub(E, JsMul(e, MathSin(E))), M)),
                        JsSub(Num(1), JsMul(e, MathCos(E)))))

KeplerRun(M, e) ==
  KeplerLoop(M, e, IF JsLt(e, Frac(8, 10)) THEN M ELSE MathPI, 0, NaN)

solveKeplerElliptic(M, e) == KeplerRun(M, e).E

(* ---- the solver and the radius in finer numbers ---- *)

(* Lines 86-96 for an orbit with 1 - e down to 1e-4 need more digits than  *)
(* 1/Scale: here a number is an integer count of 1/Fine = 1e-8.            *)
Fine == Scale * Scale
FinePI == 314159265

(* a * b / Fine, by the halves of |a| and |b| in base Scale, so that no   *)
(* intermediate value leaves the 32-bit range                              *)
FineMul(a, b) ==
  Sign(a) * Sign(b)
    * ((Abs(a) \div Scale) * (Abs(b) \div Scale)
         + ((Abs(a) \div Scale) * (Abs(b) % Scale)
              + (Abs(a) % Scale) * (Abs(b) \div Scale)
              + ((Abs(a) % Scale) * (Abs(b) % Scale)) \div Scale
              + Scale \div 2) \div Scale)

(* the decimals of r / c from the digit worth unit down to the last, for  *)
(* 0 <= r < c, by long division, rounded half up                           *)
RECURSIVE FineLongDiv(_, _, _)
FineLongDiv(r, c, unit) ==
  IF unit = 0 THEN (IF 2 * r >= c THEN 1 ELSE 0)
  ELSE ((10 * r) \div c) * unit + FineLongDiv((10 * r) % c, c, unit \div 10)

(* a / c for c > 0 *)
FineDiv(a, c) ==
  Sign(a) * ((Abs(a) \div c) * Fine + FineLongDiv(Abs(a) % c, c, Fine \div 10))

(* y * (1 - p2/6 * (1 - p2/20 * ... * (1 - p2/210))) for p2 = y^2: the     *)
(* Taylor polynomial of sin to y^15, for |y| <= pi/2                       *)
FineSinHorner(y, p2) ==
  FineMul(y,
    Fine - (FineMul(p2,
      Fine - (FineMul(p2,
        Fine - (FineMul(p2,
          Fine - (FineMul(p2,
            Fine - (FineMul(p2,
              Fine - (FineMul(p2,
                Fine - (p2 \div 210)) \div 156)) \div 110)) \div 72))
                  \div 42)) \div 20)) \div 6))

(* Math.sin for -pi/2 <= x <= pi; Math.cos(E) is FineSin(pi/2 - E) *)
FineSin(x) ==
  IF x > FinePI \div 2
  THEN FineSinHorner(FinePI - x, FineMul(FinePI - x, FinePI - x))
  ELSE FineSinHorner(x, FineMul(x, x))

(* dE = -(E - e * Math.sin(E) - M) / (1 - e * Math.cos(E)), lines 56-58 *)
FineNewton(M, e, E) ==
  FineDiv(-(E - FineMul(e, FineSin(E)) - M),
          Fine - FineMul(e, FineSin(FinePI \div 2 - E)))

(* the loop of solveKeplerElliptic in the finer numbers, where a step      *)
(* below 1e-12 is a step of 0: the final E and the iterations run          *)
RECURSIVE FineKeplerLoop(_, _, _, _)
FineKeplerLoop(M, e, E, iter) ==
  IF ~(iter < KeplerMaxIter) THEN [E |-> E, iter |-> iter]
  ELSE IF FineNewton(M, e, E) = 0 THEN [E |-> E, iter |-> iter + 1]
  ELSE FineKeplerLoop(M, e, E + FineNewton(M, e, E), iter + 1)

(* r = a * (1 - e * cosE) with a = q / (1 - e), lines 86 and 97, from the  *)
(* Newton run for M = 0                                                    *)
PerihelionRadius(q, e, run) ==
  [E |-> run.E, iter |-> run.iter,
   r |-> FineMul(q, FineDiv(Fine - FineMul(e, FineSin(FinePI \div 2 - run.E)),
                            Fine - e))]

PerihelionRun(q, e) ==
  PerihelionRadius(q, e,
    FineKeplerLoop(0, e, IF e < 8 * (Fine \div 10) THEN 0 ELSE FinePI, 0))

(* k * k * 1e12 for k = 0.01720209895 *)
GaussK2 == 295912208

(* Math.sqrt(k2 * mu / (a * a * a)) with mu = 1, in rad/day; k2 is kept at *)
(* twelve decimals so that the quotient keeps its digits                   *)
MeanMotionOfCube(a3) ==
  IF ~IsFinite(a3) \/ a3 <= 0 THEN MathSqrt(JsDiv(Num(1), a3))
  ELSE (ISqrt(4 * (GaussK2 \div a3)) + 1) \div 2

MeanMotion(a) == MeanMotionOfCube(JsMul(JsMul(a, a), a))

(* the eccentric anomaly and the Newton run behind a position: M as       *)
(* normalized at line 91                                                   *)
CometMeanAnomaly(elements, time) ==
  JsSub(JsMod(JsAdd(JsMul(MeanMotion(JsDiv(elements.perihelionDistanceAu,
                                           JsSub(Num(1),
                                                 elements.eccentricity))),
                          JsSub(DateGetTimeDays(time),
                                DateGetTimeDays(perihelionTime(elements)))),
                    MathPI),
              JsMul(Num(2), MathPI)),
        MathPI)

(* lines 108-126, Rz(node) * Rx(i) * Rz(w) applied to the perifocal point  *)
(* (xP, yP, 0). Last Rz(node), on x2 and p2 = (y2, z2)                      *)
OrbitRzNode(x2, p2, r, node) ==
  [x |-> Rotate(x2, p2.x, MathCos(node), MathSin(node)).x,
   y |-> Rotate(x2, p2.x, MathCos(node), MathSin(node)).y,
   z |-> p2.y,
   r |-> r]

(* then Rx(i), on p1 = (x1, y1) and z1 = zP = 0 *)
OrbitRxI(p1, r, i, node) ==
  OrbitRzNode(p1.x, Rotate(p1.y, 0, MathCos(i), MathSin(i)), r, node)

(* lines 104-112: the perifocal point (xP, yP) = (r cos nu, r sin nu) at   *)
(* the radius r and true anomaly nu, and first Rz(w)                       *)
OrbitAtTrueAnomaly(r, nu, i, w, node) ==
  OrbitRxI(Rotate(JsMul(r, MathCos(nu)), JsMul(r, MathSin(nu)),
                  MathCos(w), MathSin(w)),
           r, i, node)

(* lines 95-102: the radius and true anomaly from the eccentric anomaly E *)
OrbitAtEccentricAnomaly(a, e, E, i, w, node) ==
  OrbitAtTrueAnomaly(
    JsMul(a, JsSub(Num(1), JsMul(e, MathCos(E)))),
    MathAtan2(JsMul(MathSqrt(JsSub(Num(1), JsMul(e, e))), MathSin(E)),
              JsSub(MathCos(E), e)),
    i, w, node)

(* lines 73-128 without the tests that return null: the position of an    *)
(* elliptic orbit                                                          *)
OrbitPosition(elements, time) ==
  OrbitAtEccentricAnomaly(
    JsDiv(elements.perihelionDistanceAu,
          JsSub(Num(1), elements.eccentricity)),
    elements.eccentricity,
    solveKeplerElliptic(CometMeanAnomaly(elements, time),
                        elements.eccentricity),
    DegToRad(elements.inclinationDeg),
    DegToRad(elements.argPerihelionDeg),
    DegToRad(elements.ascNodeDeg))

(* mutant: an eccentricity e >= 1 is not turned away *)
cometHeliocentricEclipticJ2000_noEccentricityCheck(elements, time) ==
  IF \/ ~JsGt(elements.perihelionDistanceAu, 0)
     \/ ~JsGe(elements.eccentricity, 0)
     \/ ~NumberIsFinite(elements.perihelionDistanceAu)
     \/ ~NumberIsFinite(elements.eccentricity)
  THEN Null
  ELSE IF perihelionTime(elements) = Null THEN Null
  ELSE OrbitPosition(elements, time)

cometHeliocentricEclipticJ2000(elements, time) ==
  IF \/ ~JsGt(elements.perihelionDistanceAu, 0)
     \/ ~JsGe(elements.eccentricity, 0)
     \/ ~NumberIsFinite(elements.perihelionDistanceAu)
     \/ ~NumberIsFinite(elements.eccentricity)
  THEN Null
  ELSE IF perihelionTime(elements) = Null THEN Null
  ELSE IF JsGe(elements.eccentricity, Num(1)) THEN Null
  ELSE OrbitPosition(elements, time)

(* ------------------------------------------------------------------ *)
(* Comets: horizontal positions                                         *)
(* ------------------------------------------------------------------ *)

(* an exception leaving the function *)
Thrown == [thrown |-> TRUE]

VectorIsFinite(v) == IsFinite(v.x) /\ IsFinite(v.y) /\ IsFinite(v.z)

(* the mean longitude of the Earth seen from the Sun, in degrees:          *)
(* 100.46 + 0.9856 * (days since J2000.0)                                  *)
EarthMeanLongitude(time) ==
  normalizeAngle(Frac(10046, 100)
    + MulDivRound(DateGetTimeDays(time) - Num(10957) - (Scale \div 2),
                  9856, 10000))

(* Astronomy.HelioVector(Body.Earth, time): the Earth on a circular orbit  *)
(* of 1 au in the ecliptic, in J2000 equatorial coordinates                *)
AstronomyHelioVectorEarth(time) ==
  rotateEclipticToEquatorialJ2000(
    [x |-> MathCos(DegToRad(EarthMeanLongitude(time))),
     y |-> MathSin(DegToRad(EarthMeanLongitude(time))),
     z |-> 0])

(* Astronomy.ObserverVector(time, observer, false): the observer from the  *)
(* centre of the Earth, at most 4.3e-5 au, below the resolution here       *)
AstronomyObserverVector(time, observer) == [x |-> 0, y |-> 0, z |-> 0]

(* Astronomy.EquatorFromVector for a finite vector: right ascension in     *)
(* hours, declination in degrees                                           *)
AstronomyEquatorFromVector(vec) ==
  [ra |-> JsDiv(normalizeAngle(toDegrees(MathAtan2(vec.y, vec.x))), Num(15)),
   dec |-> toDegrees(MathAtan2(vec.z,
             MathSqrt(JsAdd(JsMul(vec.x, vec.x), JsMul(vec.y, vec.y)))))]

(* Astronomy.Horizon(time, observer, eq.ra, eq.dec, 'normal') for finite   *)
(* arguments: the horizontal coordinates of the direction (ra, dec)        *)
AstronomyHorizon(time, observer, eq) ==
  equatorialToHorizontal([ra |-> JsMul(eq.ra, Num(15)), dec |-> eq.dec],
                         observer, time)

(* a - b for vectors *)
VectorSub(a, b) ==
  [x |-> JsSub(a.x, b.x), y |-> JsSub(a.y, b.y), z |-> JsSub(a.z, b.z)]

(* lines 189-203: the position from what Astronomy.Horizon returned *)
CometPositionOf(comet, ecl, geo, hor) ==
  IF ~NumberIsFinite(hor.altitude) \/ ~NumberIsFinite(hor.azimuth)
  THEN {Null}
  ELSE {[name |-> comet.name, packed |-> comet.packed,
         altitude |-> hor.altitude, azimuth |-> hor.azimuth,
         helioDistanceAu |-> ecl.r,
         geoDistanceAu |->
           MathSqrt(JsAdd(JsAdd(JsMul(geo.x, geo.x), JsMul(geo.y, geo.y)),
                          JsMul(geo.z, geo.z)))]}

(* lines 178-187, from the topocentric vector top *)
CometPositionFromTop(comet, time, observer, ecl, geo, top) ==
  IF ~VectorIsFinite(top) THEN {Thrown, Null}
  ELSE CometPositionOf(comet, ecl, geo,
         AstronomyHorizon(time, observer, AstronomyEquatorFromVector(top)))

(* lines 166-184, from the geocentric vector geo *)
CometPositionFromGeo(comet, time, observer, ecl, geo) ==
  CometPositionFromTop(comet, time, observer, ecl, geo,
    VectorSub(geo, AstronomyObserverVector(time, observer)))

(* lines 165-175, from what cometHeliocentricEclipticJ2000 returned *)
CometPositionFromEcl(comet, time, observer, ecl) ==
  IF ecl = Null THEN {Null}
  ELSE CometPositionFromGeo(comet, time, observer, ecl,
         VectorSub(rotateEclipticToEquatorialJ2000(ecl),
                   AstronomyHelioVectorEarth(time)))

(* the outcomes of computeCometHorizontalPosition: a position, null, or an *)
(* exception. The vector handed to Astronomy.EquatorFromVector is not      *)
(* checked first; for a vector that is not finite the library either       *)
(* throws (astronomy-engine verifies its numbers) or hands back values     *)
(* that are not finite, which the test of line 191 turns into null         *)
computeCometHorizontalPosition(comet, time, location) ==
  CometPositionFromEcl(comet, time, location,
                       cometHeliocentricEclipticJ2000(comet, time))

(* the sort key of computeCometHorizontalPositions *)
CometSortKey(pos) == clamp01(JsDiv(JsAdd(pos.altitude, Num(5)), Num(95)))

(* h put into the sorted list rest, before every element whose key is no  *)
(* larger than its own                                                     *)
InsertByAltitude(h, rest) ==
  SubSeq(rest, 1, Cardinality({j \in 1..Len(rest) :
                                CometSortKey(rest[j]) > CometSortKey(h)}))
    \o <<h>>
    \o SubSeq(rest,
              Cardinality({j \in 1..Len(rest) :
                            CometSortKey(rest[j]) > CometSortKey(h)}) + 1,
              Len(rest))

(* Array.prototype.sort with the comparator bv - av: stable, the larger   *)
(* key first                                                               *)
RECURSIVE SortByAltitude(_)
SortByAltitude(out) ==
  IF Len(out) <= 1 THEN out
  ELSE InsertByAltitude(Head(out), SortByAltitude(Tail(out)))

(* ------------------------------------------------------------------ *)
(* Call records                                                         *)
(* ------------------------------------------------------------------ *)

(* the state before any call *)
NoInputs ==
  [bortleScale |-> 0, sunAltitudeDeg |-> 0, moonAltitudeDeg |-> Undefined,
   moonIlluminationFrac |-> Undefined, targetAltitudeDeg |-> 0]

NoOpts == [extinctionK |-> Undefined, marginMag |-> Undefined]


VisIdle ==
  [fn |-> "none", starMagnitude |-> 0, inputs |-> NoInputs, opts |-> NoOpts,
   ret |-> 0,
   sv |-> [visible |-> FALSE, effectiveMagnitude |-> 0,
           limitingMagnitude |-> 0, alphaScale |-> 0],
   dso |-> [magnitude |-> 0, sizeArcmin |-> 0],
   dd |-> [visible |-> FALSE, alpha |-> 0, surfaceBrightnessMagArcsec2 |-> 0,
           skyBackgroundMagArcsec2 |-> 0]]

ProjIdle ==
  [fn |-> "none", altitude |-> 0, azimuth |-> 0,
   viewAngle |-> [altitude |-> 0, azimuth |-> 0], fov |-> 0,
   angularDistance |-> 0, maxAngle |-> 0,
   out |-> [x |-> 0, y |-> 0, visible |-> FALSE],
   inView |-> [projectToScreenWithDistance |-> FALSE,
               projectToScreenUnclamped |-> FALSE,
               drawAllStars |-> FALSE, findVisibilityBoundary |-> FALSE]]

CoordIdle ==
  [fn |-> "none", equatorial |-> [ra |-> 0, dec |-> 0],
   observer |-> [latitude |-> 0, longitude |-> 0],
   date |-> UtcDate(2000, 0, 1, 12, 0, 0),
   out |-> [altitude |-> 0, azimuth |-> 0],
   back |-> [ra |-> 0, dec |-> 0],
   sidereal |-> [longitude |-> [deg |-> 0, ulps |-> 0],
                 gst |-> [deg |-> 0, ulps |-> 0],
                 lst |-> [deg |-> 0, ulps |-> 0], calculateLST |-> 0]]

CometElements(name, tp, q, e, w, node, i) ==
  [packed |-> name, name |-> name, perihelionTimeUtc |-> tp,
   perihelionDistanceAu |-> q, eccentricity |-> e,
   argPerihelionDeg |-> w, ascNodeDeg |-> node, inclinationDeg |-> i]

NoRun == [E |-> 0, iter |-> 0, dE |-> 0]

OrbitIdle ==
  [fn |-> "none",
   elements |-> CometElements("", "", 0, 0, 0, 0, 0),
   time |-> UtcDate(2000, 0, 1, 12, 0, 0),
   M |-> 0, kepler |-> NoRun, out |-> Null,
   peri |-> [E |-> 0, iter |-> 0, r |-> 0]]

BatchIdle ==
  [status |-> "idle", comets |-> <<>>, time |-> UtcDate(2000, 0, 1, 12, 0, 0),
   location |-> [latitude |-> 0, longitude |-> 0], i |-> 0, out |-> <<>>]

(* SkyViewer.tsx:932-933, the initial view; dragStartRef starts null.     *)
(* events counts the input events handled so far.                          *)
ViewIdle ==
  [viewAngle |-> [altitude |-> Num(65), azimuth |-> Num(180)],
   fov |-> Num(120), dragStart |-> Null, events |-> 0]

(* SkyViewer.tsx:916, 954-956: the location of getDefaultLocation(), the  *)
(* Bortle classes and the mode before any effect has run; stored is the    *)
(* localStorage item 'stargazer.bortleScale' (Null when absent)            *)
BortleIdle ==
  [manualBortleScale |-> Num(6), autoBortleScale |-> Num(6),
   bortleMode |-> "auto", stored |-> Null,
   location |-> [latitude |-> Frac(129716, 10000),
                 longitude |-> Frac(775946, 10000)],
   events |-> 0]

(* SkyViewer.tsx:941-945: satellites off, group 'visual', nothing loaded,  *)
(* an empty cache; fetches are the requests in flight and controller the   *)
(* request the cleanup of the last effect run aborts (0 when it has none)  *)
SatIdle ==
  [showSatellites |-> FALSE, satelliteGroup |-> "visual",
   satelliteLoading |-> FALSE, satelliteTles |-> "none",
   cache |-> [visual |-> "none", starlink |-> "none"],
   fetches |-> {}, controller |-> 0, events |-> 0]

(* part_010:121: an empty cache; now is Date.now() in milliseconds since   *)
(* the module was loaded, pending the lookups awaiting SIMBAD, last the    *)
(* last response sent (status 0: none yet)                                 *)
SimbadIdle ==
  [cache |-> {}, now |-> 0, pending |-> {}, events |-> 0,
   last |-> [status |-> 0, key |-> <<0, 0>>, at |-> 0, entry |-> {},
             upstream |-> FALSE, cached |-> FALSE, result |-> "none",
             before |-> {}, after |-> {}]]

(* no request to the comets endpoint yet *)
CometsApiIdle ==
  [status |-> 0, limitParam |-> [type |-> "null"], limit |-> 0,
   all |-> <<>>, comets |-> <<>>]

Idle ==
  /\ vis = VisIdle /\ proj = ProjIdle /\ coord = CoordIdle
  /\ orbit = OrbitIdle /\ batch = BatchIdle
  /\ calls = <<>>
  /\ view = ViewIdle
  /\ bortle = BortleIdle
  /\ sat = SatIdle
  /\ simbad = SimbadIdle
  /\ cometsApi = CometsApiIdle

(* ------------------------------------------------------------------ *)
(* Calls of the skyVisibility functions                                 *)
(* ------------------------------------------------------------------ *)

MaxBortleHalf == 20
MaxSunK == 8
MaxMoonK == 4
MaxIllumQ == 5
MaxAltK == 9
MaxMagK == 22

BortleValues == {Frac(h, 2) : h \in (-2)..MaxBortleHalf} \cup {NaN}
SunAlts == {Num(3 - 3 * k) : k \in 0..MaxSunK} \cup {NaN, PosInf, NegInf}
MoonAlts == {Num(11 * k - 13) : k \in 0..MaxMoonK} \cup {NaN, Undefined}
Illums == {Frac(k, 4) : k \in 0..MaxIllumQ} \cup {NaN, Undefined}
TargetAlts ==
  {k * AltGrid : k \in (-2)..2} \cup {4 * k * AltGrid : k \in 1..MaxAltK}
StarMags == {Frac(4 * k, 10) : k \in (-4)..MaxMagK} \cup {-Frac(146, 100)}
StarSkies ==
  {[bortleScale |-> b, sunAltitudeDeg |-> s,
    moonAltitudeDeg |-> mn[1], moonIlluminationFrac |-> mn[2]] :
     b \in {Num(4), Num(8), Num(12)},
     s \in {Num(3), Num(-12), Num(-21)},
     mn \in {<<Undefined, Undefined>>, <<Num(20), Num(1)>>,
             <<Num(-13), Frac(1, 2)>>}}

CallTwilightFactor ==
  /\ Idle
  /\ \E s \in SunAlts :
    vis' = [VisIdle EXCEPT !.fn = "twilightFactor",
                           !.inputs.sunAltitudeDeg = s,
                           !.ret = twilightFactor(s)]

CallMoonWashFactor ==
  /\ Idle
  /\ \E a \in MoonAlts, f \in Illums :
    vis' = [VisIdle EXCEPT !.fn = "moonWashFactor",
                           !.inputs.moonAltitudeDeg = a,
                           !.inputs.moonIlluminationFrac = f,
                           !.ret = moonWashFactor(a, f)]

CallGetBortleLimitingMagnitude ==
  /\ Idle
  /\ \E b \in BortleValues :
    vis' = [VisIdle EXCEPT !.fn = "getBortleLimitingMagnitude",
                           !.inputs.bortleScale = b,
                           !.ret = getBortleLimitingMagnitude(b)]

CallEffectiveLimitingMagnitude ==
  /\ Idle
  /\ \E b \in BortleValues, s \in SunAlts, a \in MoonAlts, f \in Illums :
    \E inp \in {[NoInputs EXCEPT !.bortleScale = b, !.sunAltitudeDeg = s,
                                  !.moonAltitudeDeg = a,
                                  !.moonIlluminationFrac = f]} :
       vis' = [VisIdle EXCEPT !.fn = "effectiveNakedEyeLimitingMagnitude",
                              !.inputs = inp,
                              !.ret = effectiveNakedEyeLimitingMagnitude(inp)]

(* the coefficient is the default (argument left out), a usual value, 0,  *)
(* a negative number or NaN; the altitude may also be NaN                 *)
CallExtinctionDeltaMagnitude ==
  /\ Idle
  /\ \E t \in TargetAlts \cup {NaN},
        x \in {Undefined, Frac(30, 100), 0, -Frac(20, 100), NaN} :
    \E k \in {IF x = Undefined THEN Frac(20, 100) ELSE x} :
       vis' = [VisIdle EXCEPT !.fn = "extinctionDeltaMagnitude",
                              !.inputs.targetAltitudeDeg = t,
                              !.opts.extinctionK = k,
                              !.ret = extinctionDeltaMagnitude(t, k)]

CallStarVisibility ==
  /\ Idle
  /\ \E m \in StarMags, sky \in StarSkies, t \in TargetAlts,
        o \in {NoOpts, [NoOpts EXCEPT !.extinctionK = Frac(30, 100)],
               [NoOpts EXCEPT !.marginMag = 0]} :
    \E inp \in {[bortleScale |-> sky.bortleScale,
                  sunAltitudeDeg |-> sky.sunAltitudeDeg,
                  moonAltitudeDeg |-> sky.moonAltitudeDeg,
                  moonIlluminationFrac |-> sky.moonIlluminationFrac,
                  targetAltitudeDeg |-> t]} :
       vis' = [VisIdle EXCEPT !.fn = "starVisibility",
                              !.starMagnitude = m,
                              !.inputs = inp,
                              !.opts = o,
                              !.sv = starVisibility(m, inp, o)]

(* a deep-sky object of every magnitude of the star grid and an angular   *)
(* size from 0.1 arcminute (below the floor of 0.2) to half a degree,      *)
(* with the default options                                                *)
CallDsoDetectability ==
  /\ Idle
  /\ \E m \in StarMags, sky \in StarSkies, t \in TargetAlts,
        z \in {Frac(1, 10), Num(1), Num(2), Num(10), Num(30)} :
    \E inp \in {[bortleScale |-> sky.bortleScale,
                  sunAltitudeDeg |-> sky.sunAltitudeDeg,
                  moonAltitudeDeg |-> sky.moonAltitudeDeg,
                  moonIlluminationFrac |-> sky.moonIlluminationFrac,
                  targetAltitudeDeg |-> t]},
       d \in {[magnitude |-> m, sizeArcmin |-> z]} :
       vis' = [VisIdle EXCEPT !.fn = "dsoDetectability",
                              !.dso = d,
                              !.inputs = inp,
                              !.dd = dsoDetectability(d, inp, NoOpts)]

(* a target on or below the horizon, for objects from Venus (-4.4) to a    *)
(* faint star, under the darkest to the brightest sky, default options    *)
CallStarVisibilityBelowHorizon ==
  /\ Idle
  /\ \E m \in {-Frac(44, 10), -Num(2), -Frac(146, 100), 0, Num(6)},
        b \in {Num(1), Num(4), Num(9)},
        s \in {Num(3), Num(-12), Num(-21)},
        mn \in {<<Undefined, Undefined>>, <<Num(20), Num(1)>>},
        t \in {0, -AltGrid, -Num(5), -Num(90)} :
       \E inp \in {[bortleScale |-> b, sunAltitudeDeg |-> s,
                     moonAltitudeDeg |-> mn[1],
                     moonIlluminationFrac |-> mn[2],
                     targetAltitudeDeg |-> t]} :
          vis' = [VisIdle EXCEPT !.fn = "starVisibility",
                                 !.starMagnitude = m,
                                 !.inputs = inp,
                                 !.opts = NoOpts,
                                 !.sv = starVisibility(m, inp, NoOpts)]

(* ------------------------------------------------------------------ *)
(* Calls of the projection                                              *)
(* ------------------------------------------------------------------ *)

MaxAltTicks == 3
MaxAzTicks == 7
MaxViewAltTicks == 3
MaxViewAzTicks == 3
MaxFovTicks == 4

CanvasWidth == Num(800)
CanvasHeight == Num(600)

NonFinite == {NaN, PosInf, NegInf}

ProjCall(alt, az, va, vz, fov) ==
  [fn |-> "projectToScreen", altitude |-> alt, azimuth |-> az,
   viewAngle |-> [altitude |-> va, azimuth |-> vz], fov |-> fov,
   angularDistance |->
     ProjAngularDistance(ToRad(alt), ToRad(az), ToRad(va), ToRad(vz)),
   maxAngle |-> ProjMaxAngle(fov),
   out |-> projectToScreen(alt, az, CanvasWidth, CanvasHeight,
                           [altitude |-> va, azimuth |-> vz], fov),
   inView |->
     [projectToScreenWithDistance |->
        projectToScreenWithDistanceVisible(
          ProjAngularDistance(ToRad(alt), ToRad(az), ToRad(va), ToRad(vz)),
          ProjMaxAngle(fov)),
      projectToScreenUnclamped |->
        projectToScreenUnclampedVisible(
          ProjAngularDistance(ToRad(alt), ToRad(az), ToRad(va), ToRad(vz)),
          ProjMaxAngle(fov)),
      drawAllStars |->
        drawAllStarsInView(
          ProjAngularDistance(ToRad(alt), ToRad(az), ToRad(va), ToRad(vz)),
          ProjMaxAngle(fov)),
      findVisibilityBoundary |->
        isVisibleAt(
          ProjAngularDistance(ToRad(alt), ToRad(az), ToRad(va), ToRad(vz)),
          ProjMaxAngle(fov))]]

CallProjectToScreen ==
  /\ Idle
  /\ \E alt \in {Num(30 * k) : k \in (-MaxAltTicks)..MaxAltTicks},
        az \in {Num(45 * k) : k \in 0..MaxAzTicks},
        va \in {Num(30 * k) : k \in (-1)..MaxViewAltTicks},
        vz \in {Num(90 * k) : k \in 0..MaxViewAzTicks},
        fov \in {Num(30 * k) : k \in (-1)..MaxFovTicks} :
       proj' = ProjCall(alt, az, va, vz, fov)

(* a call with one angle that is not finite *)
CallProjectToScreenNonFinite ==
  /\ Idle
  /\ \E bad \in NonFinite, which \in 1..4,
        alt \in {0, Num(30)}, az \in {0, Num(90)},
        va \in {0, Num(30)}, vz \in {0, Num(90)}, fov \in {Num(60), Num(120)} :
       proj' = ProjCall(IF which = 1 THEN bad ELSE alt,
                        IF which = 2 THEN bad ELSE az,
                        IF which = 3 THEN bad ELSE va,
                        IF which = 4 THEN bad ELSE vz, fov)

(* ------------------------------------------------------------------ *)
(* Calls of equatorialToHorizontal                                      *)
(* ------------------------------------------------------------------ *)

MaxRaTicks == 5
MaxDecTicks == 3
MaxLatTicks == 2
MaxLonTicks == 2
MaxDateOffset == 2

RAs == {Num(60 * k) : k \in 0..MaxRaTicks}
Decs == {Num(30 * k) : k \in (-MaxDecTicks)..MaxDecTicks}
Latitudes == {Num(30 * k) : k \in (-MaxLatTicks)..MaxLatTicks}
Longitudes == {Num(75 * k) : k \in (-MaxLonTicks)..MaxLonTicks}
Dates ==
  {UtcDate(2000, 0, 1, 12, 0, 0)} \cup
  {UtcDate(2000, 2 * k, 5 * k + 1, 5 * k, 13 * k, 7 * k) : k \in 0..MaxDateOffset}

CoordCall(ra, dec, lat, lon, date) ==
  [fn |-> "equatorialToHorizontal", equatorial |-> [ra |-> ra, dec |-> dec],
   observer |-> [latitude |-> lat, longitude |-> lon], date |-> date,
   out |-> equatorialToHorizontal([ra |-> ra, dec |-> dec],
                                  [latitude |-> lat, longitude |-> lon],
                                  date),
   back |-> CoordIdle.back, sidereal |-> CoordIdle.sidereal]

CallEquatorialToHorizontal ==
  /\ Idle
  /\ \E ra \in RAs, dec \in Decs, lat \in Latitudes, lon \in Longitudes,
        date \in Dates :
       coord' = CoordCall(ra, dec, lat, lon, date)

(* a target at the zenith: dec = latitude and RA = LST, so that the hour   *)
(* angle is 0 and sinAlt is the rounded sum sin^2 + cos^2                  *)
CallEquatorialToHorizontalAtZenith ==
  /\ Idle
  /\ \E lat \in {Frac(25 * k, 10) : k \in (-35)..35}, lon \in Longitudes,
        date \in Dates :
       coord' = CoordCall(calculateLST(date, lon), lat, lat, lon, date)

(* a call with one of RA, Dec, latitude, longitude not finite *)
CallEquatorialToHorizontalNonFinite ==
  /\ Idle
  /\ \E bad \in NonFinite, which \in 1..4,
        ra \in {0, Num(60)}, dec \in {0, Num(30)},
        lat \in {0, Num(30)}, lon \in {0, Num(75)}, date \in Dates :
       coord' = CoordCall(IF which = 1 THEN bad ELSE ra,
                          IF which = 2 THEN bad ELSE dec,
                          IF which = 3 THEN bad ELSE lat,
                          IF which = 4 THEN bad ELSE lon, date)

(* the round trip: horizontalToEquatorial for the horizontal position      *)
(* that equatorialToHorizontal returns for a point of the grid, the same   *)
(* observer (never at a pole) and the same instant. A position that the    *)
(* resolution AngleStep puts at the zenith or the nadir is left out: there *)
(* the cosine of the altitude is 0 here, not the 6e-17 of Math.cos.        *)
CallHorizontalToEquatorial ==
  /\ Idle
  /\ \E ra \in RAs, dec \in Decs, lat \in Latitudes, lon \in Longitudes,
        date \in Dates :
       \E c \in {CoordCall(ra, dec, lat, lon, date)} :
         /\ Abs(c.out.altitude) < Num(90)
         /\ coord' = [c EXCEPT
                       !.fn = "horizontalToEquatorial",
                       !.back = horizontalToEquatorial(c.out, c.observer, date)]

(* the sidereal times of an instant before, at or after J2000.0 for a      *)
(* longitude of the grid or the ones that cancel the Greenwich sidereal    *)
(* time, as a double on the grid or next to it; calculateLST for the grid  *)
(* value                                                                   *)
CallLocalSiderealTime ==
  /\ Idle
  /\ \E date \in Dates \cup {UtcDate(1999, 11, 2, 0, 0, 0),
                             UtcDate(1999, 11, 31, 18, 0, 0),
                             UtcDate(2000, 0, 1, 0, 0, 0)},
        u \in -2..1 :
       \E l \in Longitudes \cup {-(greenwichSiderealTime(date).deg),
                                 Num(360) - greenwichSiderealTime(date).deg} :
         /\ Abs(l) <= Num(180)
         /\ coord' = [CoordIdle EXCEPT
              !.fn = "localSiderealTime",
              !.date = date,
              !.sidereal =
                [longitude |-> [deg |-> l, ulps |-> DblNearest(u, DblSpacing(l))],
                 gst |-> greenwichSiderealTime(date),
                 lst |-> localSiderealTime(date,
                           [deg |-> l, ulps |-> DblNearest(u, DblSpacing(l))]),
                 calculateLST |-> calculateLST(date, l)]]

(* ------------------------------------------------------------------ *)
(* Calls of the comet functions                                         *)
(* ------------------------------------------------------------------ *)

MaxComets == 2

OrbitTimes == {UtcDate(2000, 0, 1, 12, 0, 0), UtcDate(2000, 2, 11, 0, 0, 0)}

(* the call with what it returned; for a position, the mean anomaly M and  *)
(* the Newton run behind it                                               *)
OrbitCallOf(elements, time, out, M) ==
  [fn |-> "cometHeliocentricEclipticJ2000", elements |-> elements,
   time |-> time, M |-> M,
   kepler |-> IF out = Null THEN NoRun
              ELSE KeplerRun(M, elements.eccentricity),
   out |-> out, peri |-> OrbitIdle.peri]

OrbitCall(elements, time) ==
  OrbitCallOf(elements, time, cometHeliocentricEclipticJ2000(elements, time),
              IF cometHeliocentricEclipticJ2000(elements, time) = Null THEN 0
              ELSE CometMeanAnomaly(elements, time))

CallCometHeliocentricEclipticJ2000 ==
  /\ Idle
  /\ \E q \in {Frac(1, 10), Frac(2, 10), Frac(5, 10), Num(1),
               0, -Frac(5, 10), NaN, PosInf},
        e \in {0, Frac(5, 10), Frac(8, 10), Frac(9, 10),
               Num(1), Frac(15, 10), -Frac(1, 10), NaN, PosInf},
        tp \in DOMAIN IsoDates \cup {"not a date"},
        time \in OrbitTimes,
        ang \in {<<Num(30), Num(60), Num(45)>>, <<0, 0, 0>>,
                 <<Num(30), Num(60), NaN>>} :
       orbit' = OrbitCall(CometElements("C/2000 A1", tp, q, e,
                                        ang[1], ang[2], ang[3]), time)

(* the solver on its own, as line 93 calls it: a mean anomaly within       *)
(* [-pi, pi] (NaN for an invalid time) and an eccentricity below 1, on     *)
(* both sides of the 0.8 switch of the starting value                      *)
CallSolveKeplerElliptic ==
  /\ Idle
  /\ \E M \in {Frac(k, 2) : k \in (-6)..6} \cup {NaN},
        e \in {0, Frac(5, 10), Frac(7, 10), Frac(8, 10), Frac(9, 10),
               Frac(99, 100)} :
       orbit' = [OrbitIdle EXCEPT !.fn = "solveKeplerElliptic",
                                  !.elements.eccentricity = e,
                                  !.M = M,
                                  !.kepler = KeplerRun(M, e)]

(* the propagator at the perihelion time itself (dtDays = 0, so M = 0),    *)
(* for perihelion distances from 0.1 to 5 AU and eccentricities from 0 to  *)
(* 0.9999, in the finer numbers                                            *)
CallCometAtPerihelion ==
  /\ Idle
  /\ \E q \in {Frac(1, 10), Num(1), Num(5)},
        e \in {0, Frac(5, 10), Frac(8, 10), Frac(9, 10), Frac(99, 100),
               Frac(999, 1000), Frac(9999, 10000)} :
       orbit' = [OrbitIdle EXCEPT
                   !.fn = "atPerihelion",
                   !.elements = CometElements("C/2000 A1",
                                              "2000-01-01T12:00:00Z", q, e,
                                              Num(30), Num(60), Num(45)),
                   !.time = UtcDate(2000, 0, 1, 12, 0, 0),
                   !.peri = PerihelionRun(q * Scale, e * Scale)]

(* computeCometHorizontalPositions is entered, for a list of one to        *)
(* MaxComets catalogue records: two well-formed ones and one for each way  *)
(* of being malformed                                                      *)
StartBatch ==
  /\ Idle
  /\ \E comets \in UNION {[1..n ->
           {CometElements("C/1999 X1", "1999-12-02T00:00:00Z", Num(1), 0,
                          Num(30), Num(60), Num(45)),
            CometElements("P/2000 B2", "2000-01-01T12:00:00Z", Frac(5, 10),
                          Frac(5, 10), 0, 0, 0),
            CometElements("C/2000 H1", "2000-01-01T12:00:00Z", Num(1), Num(1),
                          Num(30), Num(60), Num(45)),
            CometElements("C/2000 Q0", "2000-01-01T12:00:00Z", 0, Frac(5, 10),
                          Num(30), Num(60), Num(45)),
            CometElements("C/2000 T0", "not a date", Num(1), Frac(5, 10),
                          Num(30), Num(60), Num(45)),
            CometElements("C/2000 N1", "1999-12-02T00:00:00Z", Num(1),
                          Frac(5, 10), Num(30), Num(60), NaN)}] :
                          n \in 1..MaxComets},
        time \in OrbitTimes,
        location \in {[latitude |-> Num(30), longitude |-> Num(75)]} :
       batch' = [status |-> "running", comets |-> comets, time |-> time,
                 location |-> location, i |-> 1, out |-> <<>>]

(* one round of the for loop: lines 138-141 *)
BatchStep ==
  /\ batch.status = "running"
  /\ batch.i <= Len(batch.comets)
  /\ \E pos \in computeCometHorizontalPosition(batch.comets[batch.i],
                                               batch.time, batch.location) :
       batch' =
         IF pos = Thrown THEN [batch EXCEPT !.status = "thrown", !.out = <<>>]
         ELSE IF pos = Null THEN [batch EXCEPT !.i = @ + 1]
         ELSE [batch EXCEPT !.i = @ + 1, !.out = Append(@, pos)]

(* the loop is over: the sorted list is returned, lines 145-149 *)
BatchReturn ==
  /\ batch.status = "running"
  /\ batch.i > Len(batch.comets)
  /\ batch' = [batch EXCEPT !.status = "returned",
                            !.out = SortByAltitude(batch.out)]

(* ------------------------------------------------------------------ *)
(* Specifications                                                       *)
(* ------------------------------------------------------------------ *)

NextVis ==
  \/ CallTwilightFactor /\ UNCHANGED <<proj, coord, orbit, batch, calls, view, bortle, sat, simbad, cometsApi>>
  \/ CallMoonWashFactor /\ UNCHANGED <<proj, coord, orbit, batch, calls, view, bortle, sat, simbad, cometsApi>>
  \/ CallGetBortleLimitingMagnitude /\ UNCHANGED <<proj, coord, orbit, batch, calls, view, bortle, sat, simbad, cometsApi>>
  \/ CallEffectiveLimitingMagnitude /\ UNCHANGED <<proj, coord, orbit, batch, calls, view, bortle, sat, simbad, cometsApi>>
  \/ CallExtinctionDeltaMagnitude /\ UNCHANGED <<proj, coord, orbit, batch, calls, view, bortle, sat, simbad, cometsApi>>
  \/ CallStarVisibility /\ UNCHANGED <<proj, coord, orbit, batch, calls, view, bortle, sat, simbad, cometsApi>>
  \/ CallDsoDetectability /\ UNCHANGED <<proj, coord, orbit, batch, calls, view, bortle, sat, simbad, cometsApi>>
  \/ CallStarVisibilityBelowHorizon /\ UNCHANGED <<proj, coord, orbit, batch, calls, view, bortle, sat, simbad, cometsApi>>

SpecVis == Idle /\ [][NextVis]_vars

NextProj ==
  \/ CallProjectToScreen /\ UNCHANGED <<vis, coord, orbit, batch, calls, view, bortle, sat, simbad, cometsApi>>
  \/ CallProjectToScreenNonFinite /\ UNCHANGED <<vis, coord, orbit, batch, calls, view, bortle, sat, simbad, cometsApi>>
  \/ CallEquatorialToHorizontal /\ UNCHANGED <<vis, proj, orbit, batch, calls, view, bortle, sat, simbad, cometsApi>>
  \/ CallEquatorialToHorizontalNonFinite /\ UNCHANGED <<vis, proj, orbit, batch, calls, view, bortle, sat, simbad, cometsApi>>
  \/ CallEquatorialToHorizontalAtZenith /\ UNCHANGED <<vis, proj, orbit, batch, calls, view, bortle, sat, simbad, cometsApi>>
  \/ CallHorizontalToEquatorial /\ UNCHANGED <<vis, proj, orbit, batch, calls, view, bortle, sat, simbad, cometsApi>>
  \/ CallLocalSiderealTime /\ UNCHANGED <<vis, proj, orbit, batch, calls, view, bortle, sat, simbad, cometsApi>>

SpecProj == Idle /\ [][NextProj]_vars

NextOrbit ==
  \/ CallCometHeliocentricEclipticJ2000 /\ UNCHANGED <<vis, proj, coord, batch, calls, view, bortle, sat, simbad, cometsApi>>
  \/ CallSolveKeplerElliptic /\ UNCHANGED <<vis, proj, coord, batch, calls, view, bortle, sat, simbad, cometsApi>>
  \/ CallCometAtPerihelion /\ UNCHANGED <<vis, proj, coord, batch, calls, view, bortle, sat, simbad, cometsApi>>
  \/ StartBatch /\ UNCHANGED <<vis, proj, coord, orbit, calls, view, bortle, sat, simbad, cometsApi>>
  \/ BatchStep /\ UNCHANGED <<vis, proj, coord, orbit, calls, view, bortle, sat, simbad, cometsApi>>
  \/ BatchReturn /\ UNCHANGED <<vis, proj, coord, orbit, calls, view, bortle, sat, simbad, cometsApi>>

SpecOrbit == Idle /\ [][NextOrbit]_vars

(* ------------------------------------------------------------------ *)
(* Sequences of calls of the core functions                             *)
(* ------------------------------------------------------------------ *)

MaxCalls == 3

(* A caller makes one more call of a core function, whatever was called    *)
(* before: the sidereal time of either module at one of two longitudes,    *)
(* a conversion in either direction, the position of a comet, or the       *)
(* visibility of a star or of a deep-sky object.  A function receives its  *)
(* arguments only (no module of the core has a binding it writes after     *)
(* load, and the instant and the observer are parameters); the call is     *)
(* recorded with what it returned.                                         *)
CallCoreFunction ==
  /\ Len(calls) < MaxCalls
  /\ \E fn \in {"calculateLST", "localSiderealTime", "equatorialToHorizontal",
                "horizontalToEquatorial", "cometHeliocentricEclipticJ2000",
                "starVisibility", "dsoDetectability"},
        lon \in {0, Num(75)} :
       /\ fn = "calculateLST" \/ lon = Num(75)
       /\ \E a \in {CASE fn = "calculateLST" ->
                         <<UtcDate(2000, 2, 6, 5, 13, 7), lon>>
                      [] fn = "localSiderealTime" ->
                         <<UtcDate(2000, 2, 6, 5, 13, 7),
                           [deg |-> lon, ulps |-> 0]>>
                      [] fn = "equatorialToHorizontal" ->
                         <<[ra |-> Num(60), dec |-> Num(30)],
                           [latitude |-> Num(30), longitude |-> lon],
                           UtcDate(2000, 2, 6, 5, 13, 7)>>
                      [] fn = "horizontalToEquatorial" ->
                         <<[altitude |-> Num(30), azimuth |-> Num(120)],
                           [latitude |-> Num(30), longitude |-> lon],
                           UtcDate(2000, 2, 6, 5, 13, 7)>>
                      [] fn = "cometHeliocentricEclipticJ2000" ->
                         <<CometElements("C/2000 A1", "1999-12-02T00:00:00Z",
                                         Num(1), Frac(5, 10),
                                         Num(30), Num(60), Num(45)),
                           UtcDate(2000, 2, 11, 0, 0, 0)>>
                      [] fn = "starVisibility" ->
                         <<Num(4),
                           [NoInputs EXCEPT !.bortleScale = Num(4),
                                            !.sunAltitudeDeg = Num(-21),
                                            !.targetAltitudeDeg = Num(40)],
                           NoOpts>>
                      [] fn = "dsoDetectability" ->
                         <<[magnitude |-> Num(8), sizeArcmin |-> Num(10)],
                           [NoInputs EXCEPT !.bortleScale = Num(4),
                                            !.sunAltitudeDeg = Num(-21),
                                            !.targetAltitudeDeg = Num(40)],
                           NoOpts>>} :
            calls' = Append(calls,
              [fn |-> fn, args |-> a,
               ret |-> CASE fn = "calculateLST" -> calculateLST(a[1], a[2])
                         [] fn = "localSiderealTime" ->
                            localSiderealTime(a[1], a[2])
                         [] fn = "equatorialToHorizontal" ->
                            equatorialToHorizontal(a[1], a[2], a[3])
                         [] fn = "horizontalToEquatorial" ->
                            horizontalToEquatorial(a[1], a[2], a[3])
                         [] fn = "cometHeliocentricEclipticJ2000" ->
                            cometHeliocentricEclipticJ2000(a[1], a[2])
                         [] fn = "starVisibility" ->
                            starVisibility(a[1], a[2], a[3])
                         [] fn = "dsoDetectability" ->
                            dsoDetectability(a[1], a[2], a[3])])

NextCalls ==
  \/ CallCoreFunction /\ UNCHANGED <<vis, proj, coord, orbit, batch, view, bortle, sat, simbad, cometsApi>>

SpecCalls == Idle /\ [][NextCalls]_vars

(* ------------------------------------------------------------------ *)
(* Sidereal time at two instants                                        *)
(* ------------------------------------------------------------------ *)

(* Instants are counted in milliseconds from 2000-01-01T12:00:00.000Z     *)
(* (J2000.0), angles in millionths of a degree: one millisecond turns the *)
(* sky by 4.178 of them, far above the rounding of the doubles.            *)
MicroDeg == 100 * Scale

(* the UTC fields of new Date(ms) that calculateLST reads, for an instant *)
(* of January 2000 from the 1st, 00:00                                     *)
UtcFieldsOfMs(t) ==
  UtcDate(2000, 0, 1 + (t + 43200000) \div 86400000,
          ((t + 43200000) % 86400000) \div 3600000,
          (t % 3600000) \div 60000, (t % 60000) \div 1000)

(* part_007:67-75: d = jd + ut / 24 - 2451545.0 in milliseconds, from the  *)
(* fields; getUTCSeconds() is whole seconds, the milliseconds are not read *)
DaysSinceJ2000Ms(date) ==
  (JulianDayNumber(date) - 2451545) * 86400000 - 43200000
    + date.hour * 3600000 + date.minute * 60000 + date.second * 1000

(* normalizeAngle(280.46061837 + 360.98564736629 * d + longitude) for d    *)
(* of t milliseconds: 360.98564736629 / 86400000 = 4.178074622e-6          *)
SiderealAtMs(t, longitude) ==
  (280460618 + 4 * t + MulDivRound(t, 178074622, 1000000000) + longitude)
    % (360 * MicroDeg)

(* the first call: either function at an instant and a longitude *)
CallSiderealTime ==
  /\ calls = <<>>
  /\ \E fn \in {"calculateLST", "localSiderealTime"},
        t \in {0, 1, 999, 59999, 3599000, 19000000, 43199999, 50000000},
        lon \in {0, 75 * MicroDeg, (-150) * MicroDeg} :
       calls' = <<[fn |-> fn, args |-> <<t, lon>>,
                   ret |-> IF fn = "calculateLST"
                           THEN SiderealAtMs(DaysSinceJ2000Ms(UtcFieldsOfMs(t)), lon)
                           ELSE SiderealAtMs(t, lon)]>>

(* the same function at the same longitude, a step of less than one day   *)
(* later: from one millisecond to one millisecond short of a day           *)
CallSiderealTimeLater ==
  /\ Len(calls) = 1
  /\ calls[1].fn \in {"calculateLST", "localSiderealTime"}
  /\ \E step \in {1, 999, 1000, 60000, 3600000, 86164091, 86399999} :
       \E t \in {calls[1].args[1] + step} :
         calls' = Append(calls,
           [fn |-> calls[1].fn, args |-> <<t, calls[1].args[2]>>,
            ret |-> IF calls[1].fn = "calculateLST"
                    THEN SiderealAtMs(DaysSinceJ2000Ms(UtcFieldsOfMs(t)),
                                      calls[1].args[2])
                    ELSE SiderealAtMs(t, calls[1].args[2])])

NextSidereal ==
  \/ CallSiderealTime /\ UNCHANGED <<vis, proj, coord, orbit, batch, view, bortle, sat, simbad, cometsApi>>
  \/ CallSiderealTimeLater /\ UNCHANGED <<vis, proj, coord, orbit, batch, view, bortle, sat, simbad, cometsApi>>

SpecSidereal == Idle /\ [][NextSidereal]_vars

(* ------------------------------------------------------------------ *)
(* The view of SkyViewer under mouse and wheel events                   *)
(* ------------------------------------------------------------------ *)

MaxEvents == 4

(* pointer positions: the corners and the middle of a 1900 x 600 window *)
ClientXs == {0, 400, 1900}
ClientYs == {0, 300, 600}

handleMouseDown ==
  /\ view.events < MaxEvents
  /\ \E x \in ClientXs, y \in ClientYs :
       view' = [view EXCEPT !.events = @ + 1,
                            !.dragStart = [x |-> Num(x), y |-> Num(y),
                                           altitude |-> view.viewAngle.altitude,
                                           azimuth |-> view.viewAngle.azimuth]]

(* lines 1682-1695, with a drag in progress (without one the handler only *)
(* updates the hover state)                                                *)
handleMouseMove ==
  /\ view.events < MaxEvents
  /\ view.dragStart # Null
  /\ \E x \in ClientXs, y \in ClientYs :
       view' = [view EXCEPT
         !.events = @ + 1,
         !.viewAngle =
           [altitude |->
              MathMax(Num(-90), MathMin(Num(90),
                JsAdd(view.dragStart.altitude,
                      JsMul(JsSub(Num(y), view.dragStart.y), Frac(3, 10))))),
            azimuth |->
              JsMod(JsAdd(JsSub(view.dragStart.azimuth,
                                JsMul(JsSub(Num(x), view.dragStart.x),
                                      Frac(3, 10))),
                          Num(360)),
                    Num(360))]]

handleMouseUp ==
  /\ view.events < MaxEvents
  /\ view' = [view EXCEPT !.events = @ + 1, !.dragStart = Null]

(* a wheel event: deltaY of one notch, of a fast scroll, in both senses *)
handleWheel ==
  /\ view.events < MaxEvents
  /\ \E deltaY \in {-100, 100, -2000, 2000} :
       view' = [view EXCEPT
         !.events = @ + 1,
         !.fov = MathMax(Num(30), MathMin(Num(120),
                   JsAdd(@, JsMul(Num(deltaY), Frac(1, 10)))))]

NextView ==
  \/ handleMouseDown /\ UNCHANGED <<vis, proj, coord, orbit, batch, calls, bortle, sat, simbad, cometsApi>>
  \/ handleMouseMove /\ UNCHANGED <<vis, proj, coord, orbit, batch, calls, bortle, sat, simbad, cometsApi>>
  \/ handleMouseUp /\ UNCHANGED <<vis, proj, coord, orbit, batch, calls, bortle, sat, simbad, cometsApi>>
  \/ handleWheel /\ UNCHANGED <<vis, proj, coord, orbit, batch, calls, bortle, sat, simbad, cometsApi>>

SpecView == Idle /\ [][NextView]_vars

(* ------------------------------------------------------------------ *)
(* The Bortle class of SkyViewer                                        *)
(* ------------------------------------------------------------------ *)

(* a finite number so large that deg * Math.PI overflows (above            *)
(* Number.MAX_VALUE / Math.PI = 5.7e307), e.g. 1e308                        *)
HugeNumber == 2000000007

(* Number(v) for the values of the model: a number is itself, a string is  *)
(* parsed as a numeric literal (NaN when it is none), null is 0,           *)
(* undefined is NaN, and a Symbol makes Number throw a TypeError           *)
JsNumber(v) ==
  CASE v.type = "number" -> v.value
    [] v.type = "null" -> 0
    [] v.type = "undefined" -> NaN
    [] v.type = "symbol" -> Thrown
    [] v.type = "string" ->
         CASE v.text = "7" -> Num(7)
           [] v.text = "0" -> 0
           [] v.text = "3.5" -> Frac(35, 10)
           [] v.text = "5" -> Num(5)
           [] v.text = "10" -> Num(10)
           [] v.text = "10.5" -> Frac(105, 10)
           [] v.text = "12" -> Num(12)
           [] v.text = "500" -> Num(500)
           [] v.text = "1000" -> Num(1000)
           [] v.text = "42" -> Num(42)
           [] v.text = "-5" -> Num(-5)
           [] v.text = "" -> 0
           [] v.text = "Infinity" -> PosInf
           [] OTHER -> NaN

(* Math.max(1, Math.min(9, Math.round(v))) *)
ClampBortle(v) == MathMax(Num(1), MathMin(Num(9), MathRound(v)))

(* lightPollutionData.ts:226-232, the nearest city of INDIAN_CITIES and    *)
(* its haversine distance, tabulated for the locations of the model:       *)
(* Bangalore itself, 114 km and 255 km from it, the Gulf of Guinea, and a  *)
(* latitude for which toRad overflows, so that every distance is NaN and   *)
(* the first city of the list is kept                                      *)
NearestCity(latitude, longitude) ==
  CASE latitude = HugeNumber -> [bortle |-> Num(9), distKm |-> NaN]
    [] latitude = Frac(129716, 10000) -> [bortle |-> Num(8), distKm |-> 0]
    [] latitude = Num(14) -> [bortle |-> Num(8), distKm |-> Frac(1143529, 10000)]
    [] latitude = Num(15) -> [bortle |-> Num(8), distKm |-> Frac(2545958, 10000)]
    [] OTHER -> [bortle |-> Num(9), distKm |-> Frac(82111356, 10000)]

(* lines 237-247, from the nearest city *)
BortleFromNearest(best) ==
  IF JsGt(best.distKm, Num(350)) THEN Num(5)
  ELSE MathMax(Num(1), MathMin(Num(9), MathRound(
         JsSub(best.bortle,
               JsMul(Num(3),
                     MathMax(0, MathMin(Num(1),
                       JsDiv(JsSub(best.distKm, Num(30)), Num(170)))))))))

(* the bortle field of the result *)
estimateBortleScaleForLocation(latitude, longitude) ==
  IF ~NumberIsFinite(latitude) \/ ~NumberIsFinite(longitude) THEN Num(6)
  ELSE BortleFromNearest(NearestCity(latitude, longitude))

(* SkyViewer.tsx:1166 *)
effectiveBortleScale ==
  IF bortle.bortleMode = "auto" THEN bortle.autoBortleScale
  ELSE bortle.manualBortleScale

(* the texts another tab or the user may have left in localStorage *)
StoredTexts == {"7", "0", "3.5", "42", "-5", "", "Infinity", "abc"}

(* read() of SkyViewer.tsx:1095-1105, at mount or on a 'storage' event for *)
(* the key, after anyone has written the item (or removed it)              *)
ReadStoredBortle ==
  /\ bortle.events < MaxEvents
  /\ \E raw \in StoredTexts \cup {"none"} :
       \E parsed \in {IF raw = "none" \/ raw = "" THEN NaN
                      ELSE JsNumber([type |-> "string", text |-> raw])} :
         bortle' = [bortle EXCEPT
           !.events = @ + 1,
           !.stored = IF raw = "none" THEN Null ELSE raw,
           !.manualBortleScale =
             IF NumberIsFinite(parsed) THEN ClampBortle(parsed) ELSE @]

(* onCustom of SkyViewer.tsx:1109-1112 for a 'stargazer:bortleScale' event *)
(* with any detail; a detail Number() throws on leaves the state as it was *)
OnCustomBortleEvent ==
  /\ bortle.events < MaxEvents
  /\ \E detail \in {[type |-> "number", value |-> x] :
                      x \in {Num(5), 0, Frac(95, 10), Num(-3), Num(1000),
                             NaN, PosInf, NegInf}}
                   \cup {[type |-> "string", text |-> t] : t \in StoredTexts}
                   \cup {[type |-> "null"], [type |-> "undefined"],
                         [type |-> "symbol"]} :
       \E v \in {JsNumber(detail)} :
         bortle' = [bortle EXCEPT
           !.events = @ + 1,
           !.manualBortleScale =
             IF detail.type # "symbol" /\ NumberIsFinite(v)
             THEN ClampBortle(v) ELSE @]

(* String(clamped) for the values update can store *)
BortleText(v) ==
  IF IsNaN(v) THEN "NaN"
  ELSE <<"1", "2", "3", "4", "5", "6", "7", "8", "9">>[v \div Scale]

(* update of BortleSlider (part_000:65-74) for the value of the range      *)
(* input, then onCustom of SkyViewer for the event it dispatches            *)
BortleSliderUpdate ==
  /\ bortle.events < MaxEvents
  /\ \E next \in {Num(k) : k \in 1..9} \cup {Frac(45, 10), NaN} :
       bortle' = [bortle EXCEPT
         !.events = @ + 1,
         !.stored = BortleText(ClampBortle(next)),
         !.manualBortleScale =
           IF NumberIsFinite(ClampBortle(next))
           THEN ClampBortle(ClampBortle(next)) ELSE @]

(* the AUTO button (SkyViewer.tsx:2390) and the restore of the mode at     *)
(* mount (1126-1134), which accepts 'auto' and 'manual' only                *)
SetBortleMode ==
  /\ bortle.events < MaxEvents
  /\ \E mode \in {"auto", "manual"} :
       bortle' = [bortle EXCEPT !.events = @ + 1, !.bortleMode = mode]

(* setLocation (SkyViewer.tsx:973, 985) with any two numbers, then the     *)
(* effect of lines 1154-1164                                               *)
SetLocation ==
  /\ bortle.events < MaxEvents
  /\ \E lat \in {Frac(129716, 10000), Num(14), Num(15), 0, HugeNumber,
                 NaN, PosInf},
        lon \in {Frac(775946, 10000), NegInf} :
       bortle' = [bortle EXCEPT
         !.events = @ + 1,
         !.location = [latitude |-> lat, longitude |-> lon],
         !.autoBortleScale = estimateBortleScaleForLocation(lat, lon)]

NextBortle ==
  \/ ReadStoredBortle /\ UNCHANGED <<vis, proj, coord, orbit, batch, calls, view, sat, simbad, cometsApi>>
  \/ OnCustomBortleEvent /\ UNCHANGED <<vis, proj, coord, orbit, batch, calls, view, sat, simbad, cometsApi>>
  \/ BortleSliderUpdate /\ UNCHANGED <<vis, proj, coord, orbit, batch, calls, view, sat, simbad, cometsApi>>
  \/ SetBortleMode /\ UNCHANGED <<vis, proj, coord, orbit, batch, calls, view, sat, simbad, cometsApi>>
  \/ SetLocation /\ UNCHANGED <<vis, proj, coord, orbit, batch, calls, view, sat, simbad, cometsApi>>

SpecBortle == Idle /\ [][NextBortle]_vars

(* ------------------------------------------------------------------ *)
(* The satellite TLE loader of SkyViewer                                *)
(* ------------------------------------------------------------------ *)

(* controller.abort() of the cleanup (line 1211): the request, if still in *)
(* flight, will reject with an AbortError                                  *)
AbortFetch(fetches, controller) ==
  {[f EXCEPT !.aborted = @ \/ f.id = controller] : f \in fetches}

(* the effect of lines 1174-1212 after showSatellites or satelliteGroup    *)
(* has changed: the cleanup of the previous run, then the body             *)
SatelliteEffect(s, show, group) ==
  IF ~show
  THEN [s EXCEPT !.showSatellites = show, !.satelliteGroup = group,
                 !.events = @ + 1, !.controller = 0,
                 !.fetches = AbortFetch(@, s.controller)]
  ELSE IF s.cache[group] = "satellites"
  THEN [s EXCEPT !.showSatellites = show, !.satelliteGroup = group,
                 !.events = @ + 1, !.controller = 0,
                 !.fetches = AbortFetch(@, s.controller),
                 !.satelliteTles = group]
  ELSE [s EXCEPT !.showSatellites = show, !.satelliteGroup = group,
                 !.events = @ + 1, !.controller = s.events + 1,
                 !.fetches = AbortFetch(@, s.controller)
                   \cup {[id |-> s.events + 1, group |-> group, aborted |-> FALSE]},
                 !.satelliteLoading = TRUE]

(* the Satellites button, line 2408 *)
ToggleSatellites ==
  /\ sat.events < MaxEvents
  /\ sat' = SatelliteEffect(sat, ~sat.showSatellites, sat.satelliteGroup)

(* the Starlink button, lines 2419-2427 *)
ToggleStarlink ==
  /\ sat.events < MaxEvents
  /\ sat' = IF sat.showSatellites /\ sat.satelliteGroup = "starlink"
            THEN SatelliteEffect(sat, sat.showSatellites, "visual")
            ELSE SatelliteEffect(sat, TRUE, "starlink")

(* the promise chain of lines 1186-1209 when a request settles: an aborted *)
(* one rejects with an AbortError, the others answer with satellites, with *)
(* none, or fail; .finally runs in every case                              *)
SatelliteFetchSettles ==
  \E f \in sat.fetches, answer \in {"satellites", "empty", "error"} :
    /\ f.aborted => answer = "error"
    /\ sat' = [sat EXCEPT
         !.fetches = @ \ {f},
         !.cache = IF answer = "error" THEN @
                   ELSE [@ EXCEPT ![f.group] = answer],
         !.satelliteTles = IF answer = "error" THEN @
                           ELSE IF answer = "empty" THEN "empty" ELSE f.group,
         !.satelliteLoading = FALSE]

NextSat ==
  \/ ToggleSatellites /\ UNCHANGED <<vis, proj, coord, orbit, batch, calls, view, bortle, simbad, cometsApi>>
  \/ ToggleStarlink /\ UNCHANGED <<vis, proj, coord, orbit, batch, calls, view, bortle, simbad, cometsApi>>
  \/ SatelliteFetchSettles /\ UNCHANGED <<vis, proj, coord, orbit, batch, calls, view, bortle, simbad, cometsApi>>

SpecSat == Idle /\ [][NextSat]_vars

(* ------------------------------------------------------------------ *)
(* The SIMBAD star resolver (GET /api/star-resolve)                     *)
(* ------------------------------------------------------------------ *)
(* Coordinates are in millionths of a degree; the cache is the set of   *)
(* its entries [key, ts, value], at most one per key.                   *)

(* part_010:122 *)
CACHE_TTL_MS == 1000 * 60 * 60

(* x.toFixed(5) of a coordinate, as the number of 1e-5 degrees: the        *)
(* nearest one, the larger in magnitude when two are equally near          *)
ToFixed5(x) ==
  IF x < 0 THEN 0 - ((5 - x) \div 10) ELSE (x + 5) \div 10

(* part_010:124-127 *)
toKey(ra, dec) == <<ToFixed5(ra), ToFixed5(dec)>>

(* cache.get(key): the entries found, one or none *)
CacheGet(cache, key) == {e \in cache : e.key = key}

(* cache.set(key, {ts, value}) *)
CacheSet(cache, key, ts, value) ==
  {e \in cache : e.key # key} \cup {[key |-> key, ts |-> ts, value |-> value]}

(* a freshness test that still accepts an entry exactly one hour old *)
CacheFresh_inclusive(cached, now) ==
  \E e \in cached : now - e.ts <= CACHE_TTL_MS

(* line 293: cached && now - cached.ts < CACHE_TTL_MS *)
CacheFresh(cached, now) ==
  \E e \in cached : now - e.ts < CACHE_TTL_MS

(* cached.value; "null" is the null of a lookup that found no object *)
CachedValue(cached) == (CHOOSE e \in cached : TRUE).value

(* Date.now() moves on between two events *)
ClockAdvances ==
  /\ simbad.events < MaxEvents
  /\ \E d \in {1, CACHE_TTL_MS - 1, CACHE_TTL_MS} :
       simbad' = [simbad EXCEPT !.events = @ + 1, !.now = @ + d]

(* GET, lines 276-298: up to the response from the cache or to the await   *)
(* of simbadResolveByCoords                                               *)
SimbadGet ==
  /\ simbad.events < MaxEvents
  /\ \E ra \in {101287152, 101287148, 95987958, 360 * MicroDeg, NaN},
        dec \in {-16716116, -91 * MicroDeg} :
       simbad' =
         IF ~NumberIsFinite(ra) \/ ~NumberIsFinite(dec)
            \/ ra < 0 \/ ra >= 360 * MicroDeg
            \/ dec < -90 * MicroDeg \/ dec > 90 * MicroDeg
         THEN [simbad EXCEPT !.events = @ + 1,
                 !.last = [status |-> 400, key |-> <<ra, dec>>, at |-> simbad.now,
                           entry |-> {}, upstream |-> FALSE, cached |-> FALSE,
                           result |-> "none", before |-> simbad.cache,
                           after |-> simbad.cache]]
         ELSE IF CacheFresh(CacheGet(simbad.cache, toKey(ra, dec)), simbad.now)
         THEN [simbad EXCEPT !.events = @ + 1,
                 !.last = [status |-> 200, key |-> toKey(ra, dec), at |-> simbad.now,
                           entry |-> CacheGet(simbad.cache, toKey(ra, dec)),
                           upstream |-> FALSE, cached |-> TRUE,
                           result |-> CachedValue(CacheGet(simbad.cache, toKey(ra, dec))),
                           before |-> simbad.cache, after |-> simbad.cache]]
         ELSE [simbad EXCEPT !.events = @ + 1,
                 !.pending = @ \cup
                   {[id |-> simbad.events + 1, key |-> toKey(ra, dec),
                     now |-> simbad.now,
                     entry |-> CacheGet(simbad.cache, toKey(ra, dec))]}]

(* GET, lines 297-309, once simbadResolveByCoords has settled: with an     *)
(* object, with null (no object within 60 arcsec), or with an error        *)
(* (fetch rejected or an upstream status that is not ok)                   *)
SimbadSettles ==
  \E p \in simbad.pending, answer \in {"* alf CMa", "* alf Car", "null", "error"} :
    simbad' =
      IF answer = "error"
      THEN [simbad EXCEPT !.pending = @ \ {p},
              !.last = [status |-> 500, key |-> p.key, at |-> p.now,
                        entry |-> p.entry, upstream |-> TRUE, cached |-> FALSE,
                        result |-> "none", before |-> simbad.cache,
                        after |-> simbad.cache]]
      ELSE [simbad EXCEPT !.pending = @ \ {p},
              !.cache = CacheSet(@, p.key, p.now, answer),
              !.last = [status |-> 200, key |-> p.key, at |-> p.now,
                        entry |-> p.entry, upstream |-> TRUE, cached |-> FALSE,
                        result |-> answer, before |-> simbad.cache,
                        after |-> CacheSet(simbad.cache, p.key, p.now, answer)]]

NextSimbad ==
  \/ ClockAdvances /\ UNCHANGED <<vis, proj, coord, orbit, batch, calls, view, bortle, sat, cometsApi>>
  \/ SimbadGet /\ UNCHANGED <<vis, proj, coord, orbit, batch, calls, view, bortle, sat, cometsApi>>
  \/ SimbadSettles /\ UNCHANGED <<vis, proj, coord, orbit, batch, calls, view, bortle, sat, cometsApi>>

SpecSimbad == Idle /\ [][NextSimbad]_vars

(* ------------------------------------------------------------------ *)
(* The comets endpoint (GET /api/comets)                                *)
(* ------------------------------------------------------------------ *)

(* limitParam || 200: null and the empty string are falsy *)
LimitOrDefault(limitParam) ==
  IF limitParam.type = "null" \/ limitParam = [type |-> "string", text |-> ""]
  THEN [type |-> "number", value |-> Num(200)]
  ELSE limitParam

(* route.ts:111 *)
CometsLimit(limitParam) ==
  MathMax(Num(10), MathMin(Num(500), JsNumber(LimitOrDefault(limitParam))))

(* line 119, the filter *)
HasPerihelionDistance(c) ==
  NumberIsFinite(c.perihelionDistanceAu) /\ JsGt(c.perihelionDistanceAu, 0)

(* the place of element i after the stable sort of line 120: behind every  *)
(* element with a smaller distance and every earlier one with the same     *)
PerihelionRank(list, i) ==
  1 + Cardinality({j \in 1..Len(list) :
        \/ list[j].perihelionDistanceAu < list[i].perihelionDistanceAu
        \/ (list[j].perihelionDistanceAu = list[i].perihelionDistanceAu /\ j < i)})

(* .sort((a, b) => a.perihelionDistanceAu - b.perihelionDistanceAu) *)
SortByPerihelion(list) ==
  [k \in 1..Len(list) |->
     list[CHOOSE i \in 1..Len(list) : PerihelionRank(list, i) = k]]

(* sorted.slice(0, limit): the end is ToIntegerOrInfinity(limit), which is *)
(* 0 for NaN and drops the fraction otherwise                              *)
SliceTo(list, limit) ==
  IF IsNaN(limit) \/ JsLe(limit, 0) THEN <<>>
  ELSE IF limit = PosInf \/ limit \div Scale >= Len(list) THEN list
  ELSE SubSeq(list, 1, limit \div Scale)

(* the elements parseMpcCometEls returns for the texts of the model: n     *)
(* comets, in order of distance, in reverse order, or in no order with     *)
(* equal, zero and negative distances among them                           *)
CometCatalogue(n, order) ==
  [i \in 1..n |->
     [packed |-> i,
      perihelionDistanceAu |->
        CASE order = "ascending" -> Frac(i, 4)
          [] order = "descending" -> Frac(n + 1 - i, 4)
          [] OTHER -> IF i % 4 = 0 THEN Num(2 - i) ELSE Frac(((i * 5) % 7) + 1, 2)]]

(* GET, lines 109-137 *)
CometsGet ==
  \E limitParam \in {[type |-> "null"]} \cup
       {[type |-> "string", text |-> t] :
          t \in {"", "0", "5", "10", "10.5", "12", "500", "1000", "-5",
                 "Infinity", "abc"}},
     n \in {0, 4, 11, 13}, order \in {"ascending", "descending", "mixed"},
     ok \in BOOLEAN :
    cometsApi' =
      IF ok
      THEN [status |-> 200, limitParam |-> limitParam,
            limit |-> CometsLimit(limitParam),
            all |-> CometCatalogue(n, order),
            comets |-> SliceTo(SortByPerihelion(SelectSeq(CometCatalogue(n, order),
                                                          HasPerihelionDistance)),
                               CometsLimit(limitParam))]
      ELSE [status |-> 500, limitParam |-> limitParam,
            limit |-> CometsLimit(limitParam), all |-> <<>>, comets |-> <<>>]

NextCometsApi ==
  CometsGet /\ UNCHANGED <<vis, proj, coord, orbit, batch, calls, view, bortle, sat, simbad>>

SpecCometsApi == Idle /\ [][NextCometsApi]_vars

(* ------------------------------------------------------------------ *)
(* Claims about skyVisibility                                           *)
(* ------------------------------------------------------------------ *)

(* the Bortle class a number stands for: the nearest integer *)
BortleClass(b) == (b + Scale \div 2) \div Scale

ReferenceLimitingMag ==
  <<Frac(80, 10), Frac(76, 10), Frac(71, 10), Frac(66, 10), Frac(61, 10),
    Frac(56, 10), Frac(51, 10), Frac(46, 10), Frac(41, 10)>>

MoonWashFormula(alt, illum) ==
  FixMul(illum,
         Frac(35, 100)
           + FixMul(Frac(65, 100),
                    MathMax(0, MathMin(Scale,
                               MulDivRound(alt + Num(2), Scale, Num(22))))))

(* C8 as stated: moonWashFactor is 0 whenever the Moon is below -2 degrees *)
(* or the illumination is 0, otherwise the formula; always within [0, 1].  *)
C8_ZeroBelowHorizon ==
  (/\ vis.fn = "moonWashFactor"
   /\ NumberIsFinite(vis.inputs.moonAltitudeDeg)
   /\ NumberIsFinite(vis.inputs.moonIlluminationFrac)
   /\ vis.inputs.moonIlluminationFrac \in 0..Scale)
    => /\ vis.ret \in 0..Scale
       /\ IF vis.inputs.moonAltitudeDeg < -Num(2)
             \/ vis.inputs.moonIlluminationFrac = 0
          THEN vis.ret = 0
          ELSE vis.ret = MoonWashFormula(vis.inputs.moonAltitudeDeg,
                                         vis.inputs.moonIlluminationFrac)

(* C8 amended: for finite arguments with illumination in [0, 1],           *)
(* moonWashFactor is illum * (0.35 + 0.65 * clamp((moonAlt + 2)/22, 0, 1)) *)
(* at every altitude, hence 0.35 * illum (not 0) while the Moon is below   *)
(* -2 degrees; it is 0 when the illumination is 0 or an argument is absent *)
(* or not finite; the result is always within [0, 1].                      *)
C8_FormulaAtEveryAltitude ==
  vis.fn = "moonWashFactor"
    => /\ vis.ret \in 0..Scale
       /\ (\/ ~NumberIsFinite(vis.inputs.moonAltitudeDeg)
           \/ ~NumberIsFinite(vis.inputs.moonIlluminationFrac))
            => vis.ret = 0
       /\ (/\ NumberIsFinite(vis.inputs.moonAltitudeDeg)
           /\ NumberIsFinite(vis.inputs.moonIlluminationFrac)
           /\ vis.inputs.moonIlluminationFrac \in 0..Scale)
            => /\ vis.ret = MoonWashFormula(vis.inputs.moonAltitudeDeg,
                                            vis.inputs.moonIlluminationFrac)
               /\ (vis.inputs.moonIlluminationFrac = 0) => vis.ret = 0
               /\ (vis.inputs.moonAltitudeDeg <= -Num(2))
                    => vis.ret = FixMul(vis.inputs.moonIlluminationFrac,
                                        Frac(35, 100))

C8_MoonBelowHorizonSeen ==
  /\ vis.fn = "moonWashFactor"
  /\ vis.inputs.moonAltitudeDeg = -Num(13)
  /\ vis.inputs.moonIlluminationFrac = Num(1)
  /\ vis.ret = Frac(35, 100)

(* C9: starVisibility returns effectiveMagnitude = starMagnitude +          *)
(* extinctionDeltaMagnitude(targetAltitude, k) and visible exactly when     *)
(* effectiveMagnitude <= limitingMagnitude + marginMag (inclusive), with    *)
(* the defaults k = 0.20 and marginMag = 0.20 and limitingMagnitude the     *)
(* effective limiting magnitude of the same inputs.                         *)
C9_StarVisibilityGate ==
  vis.fn = "starVisibility"
    => /\ vis.sv.effectiveMagnitude =
            vis.starMagnitude
              + extinctionDeltaMagnitude(vis.inputs.targetAltitudeDeg,
                                         Nullish(vis.opts.extinctionK,
                                                 Frac(20, 100)))
       /\ vis.sv.limitingMagnitude =
            effectiveNakedEyeLimitingMagnitude(vis.inputs)
       /\ vis.sv.visible
            <=> (vis.sv.effectiveMagnitude
                   <= vis.sv.limitingMagnitude
                        + Nullish(vis.opts.marginMag, Frac(20, 100)))

C9_BoundaryStarVisible ==
  /\ vis.fn = "starVisibility"
  /\ vis.opts = NoOpts
  /\ vis.sv.effectiveMagnitude = vis.sv.limitingMagnitude + Frac(20, 100)
  /\ vis.sv.visible

(* clamp(lerp(2.5, bortleBase, twilightFactor) - moon term, -1.5, 9.0) for  *)
(* a sun altitude that is not NaN                                           *)
LimitingMagnitudeBlend(inputs) ==
  MathMax(-Frac(15, 10), MathMin(Num(9),
    Frac(25, 10)
      + FixMul(getBortleLimitingMagnitude(inputs.bortleScale) - Frac(25, 10),
               twilightFactor(inputs.sunAltitudeDeg))
      - 2 * moonWashFactor(inputs.moonAltitudeDeg,
                           inputs.moonIlluminationFrac)))

BlendEndpointsOf(base, tw, moon, ret) ==
  /\ (tw = 0) => ret = Frac(25, 10) - moon
  /\ (tw = Scale) => ret = base - moon
  /\ moon \in 0..Num(2)

BlendEndpoints(inputs, ret) ==
  BlendEndpointsOf(getBortleLimitingMagnitude(inputs.bortleScale),
                   twilightFactor(inputs.sunAltitudeDeg),
                   2 * moonWashFactor(inputs.moonAltitudeDeg,
                                      inputs.moonIlluminationFrac),
                   ret)

(* C10 as stated: effectiveNakedEyeLimitingMagnitude is                     *)
(* clamp(lerp(2.5, bortleBase, twilightFactor) - 2.0 * moonWashFactor,      *)
(* -1.5, 9.0): 2.5 minus the moon term at twilightFactor 0, the Bortle base *)
(* minus the moon term at twilightFactor 1; the moon term is at most 2.0    *)
(* and the result lies in [-1.5, 9.0] for all inputs.                       *)
C10_InRangeForAllInputs ==
  vis.fn = "effectiveNakedEyeLimitingMagnitude"
    => /\ ~IsNaN(vis.inputs.sunAltitudeDeg)
            => /\ vis.ret = LimitingMagnitudeBlend(vis.inputs)
               /\ BlendEndpoints(vis.inputs, vis.ret)
       /\ JsGe(vis.ret, -Frac(15, 10)) /\ JsLe(vis.ret, Num(9))

(* C10 amended: for every input whose sun altitude is not NaN (the Bortle   *)
(* class and the Moon arguments may be anything), the result is             *)
(* clamp(lerp(2.5, bortleBase, twilightFactor) - 2.0 * moonWashFactor,      *)
(* -1.5, 9.0): 2.5 minus the moon term at twilightFactor 0, the Bortle base *)
(* minus the moon term at twilightFactor 1, the moon term at most 2.0, the  *)
(* result within [-1.5, 9.0]; for a NaN sun altitude the result is NaN.     *)
C10_LimitingMagnitudeBlend ==
  vis.fn = "effectiveNakedEyeLimitingMagnitude"
    => IF IsNaN(vis.inputs.sunAltitudeDeg)
       THEN IsNaN(vis.ret)
       ELSE /\ vis.ret = LimitingMagnitudeBlend(vis.inputs)
            /\ BlendEndpoints(vis.inputs, vis.ret)
            /\ vis.ret >= -Frac(15, 10) /\ vis.ret <= Num(9)

C10_DarkSkyFullMoonSeen ==
  /\ vis.fn = "effectiveNakedEyeLimitingMagnitude"
  /\ twilightFactor(vis.inputs.sunAltitudeDeg) = Scale
  /\ vis.inputs.bortleScale = Num(4)
  /\ vis.inputs.moonAltitudeDeg = Num(20)
  /\ vis.inputs.moonIlluminationFrac = Num(1)
  /\ vis.ret = Frac(46, 10)

(* C11: for a fixed Bortle class (in range or not), Moon altitude and     *)
(* Moon illumination, effectiveNakedEyeLimitingMagnitude does not decrease *)
(* as the Sun goes down: for sun altitudes s1 >= s2,                       *)
(* limit(s1) <= limit(s2).  s1 is the sun altitude of the recorded call,   *)
(* s2 ranges over every other sun altitude.                                *)
C11_DarkerSkyNeverLowersLimit ==
  vis.fn = "effectiveNakedEyeLimitingMagnitude"
    => \A s2 \in SunAlts :
         JsGe(vis.inputs.sunAltitudeDeg, s2)
           => JsLe(vis.ret,
                   effectiveNakedEyeLimitingMagnitude(
                     [vis.inputs EXCEPT !.sunAltitudeDeg = s2]))

(* a call in mid twilight whose limit is strictly below the limit of the   *)
(* same sky at astronomical night                                          *)
C11_TwilightBelowNightSeen ==
  /\ vis.fn = "effectiveNakedEyeLimitingMagnitude"
  /\ vis.inputs.sunAltitudeDeg = Num(-12)
  /\ vis.inputs.bortleScale = Num(4)
  /\ vis.inputs.moonAltitudeDeg = Undefined
  /\ vis.ret = Frac(455, 100)
  /\ effectiveNakedEyeLimitingMagnitude(
       [vis.inputs EXCEPT !.sunAltitudeDeg = Num(-18)]) = Frac(66, 10)

(* C12: twilightFactor(sunAlt) is clamp((-sunAlt - 6) / 12, 0, 1): exactly *)
(* 0 for every sun altitude >= -6 degrees, exactly 1 for every sun         *)
(* altitude <= -18 degrees, and (-sunAlt - 6) / 12, strictly between 0 and *)
(* 1, for the sun altitudes in between.                                    *)
C12_TwilightFactorPiecewiseLinear ==
  vis.fn = "twilightFactor"
    => /\ JsGe(vis.inputs.sunAltitudeDeg, Num(-6)) => vis.ret = 0
       /\ JsLe(vis.inputs.sunAltitudeDeg, Num(-18)) => vis.ret = Num(1)
       /\ (JsLt(vis.inputs.sunAltitudeDeg, Num(-6))
             /\ JsGt(vis.inputs.sunAltitudeDeg, Num(-18)))
            => /\ 12 * vis.ret = -vis.inputs.sunAltitudeDeg - Num(6)
               /\ vis.ret > 0 /\ vis.ret < Num(1)

C12_NauticalTwilightSeen ==
  /\ vis.fn = "twilightFactor"
  /\ vis.inputs.sunAltitudeDeg = Num(-12)
  /\ vis.ret = Frac(1, 2)

C14_DsoVisibleImpliesStarVisible ==
  (vis.fn = "dsoDetectability" /\ vis.dd.visible)
    => starVisibility(vis.dso.magnitude, vis.inputs, NoOpts).visible

(* ------------------------------------------------------------------ *)
(* Claims about projectToScreen                                         *)
(* ------------------------------------------------------------------ *)

ProjCalled == proj.fn = "projectToScreen"

ProjFiniteAngles ==
  /\ IsFinite(proj.altitude) /\ IsFinite(proj.azimuth)
  /\ IsFinite(proj.viewAngle.altitude) /\ IsFinite(proj.viewAngle.azimuth)

ProjAtViewCentre ==
  /\ proj.altitude = proj.viewAngle.altitude
  /\ proj.azimuth = proj.viewAngle.azimuth

ViewportCentre ==
  [x |-> CanvasWidth \div 2, y |-> CanvasHeight \div 2, visible |-> TRUE]

OutOfView == [x |-> 0, y |-> 0, visible |-> FALSE]

C5_NonPositiveFovRejected ==
  (ProjCalled /\ ProjFiniteAngles /\ proj.fov <= 0) =>
    /\ proj.out.visible = FALSE
    /\ proj.out # OutOfView

CoordCalled == coord.fn = "equatorialToHorizontal"

CoordFiniteArguments ==
  /\ IsFinite(coord.equatorial.ra) /\ IsFinite(coord.equatorial.dec)
  /\ IsFinite(coord.observer.latitude) /\ IsFinite(coord.observer.longitude)

(* equatorialToHorizontal gives NaN for both coordinates whenever RA, Dec, *)
(* latitude or longitude is not finite                                     *)
CoordNonFinitePropagates ==
  (CoordCalled /\ ~CoordFiniteArguments)
    => IsNaN(coord.out.altitude) /\ IsNaN(coord.out.azimuth)

(* C6 as stated: a call of projectToScreen with a NaN or infinite target   *)
(* or view-centre angle never returns visible = TRUE, and a call of        *)
(* equatorialToHorizontal with a non-finite RA, Dec, latitude or longitude *)
(* never returns a finite coordinate.                                      *)
C6_NonFiniteAngleRejected ==
  /\ (ProjCalled /\ ~ProjFiniteAngles) => proj.out.visible = FALSE
  /\ (CoordCalled /\ ~CoordFiniteArguments)
       => ~IsFinite(coord.out.altitude) /\ ~IsFinite(coord.out.azimuth)

(* ------------------------------------------------------------------ *)
(* Claims about the comet functions                                     *)
(* ------------------------------------------------------------------ *)

OrbitCalled == orbit.fn = "cometHeliocentricEclipticJ2000"

(* the elements the orbit propagator is to turn away: e >= 1 or q <= 0 *)
OrbitUnsupported ==
  \/ JsGe(orbit.elements.eccentricity, Num(1))
  \/ JsLe(orbit.elements.perihelionDistanceAu, 0)

UnsupportedEccentricity == [failure |-> "UnsupportedEccentricity"]
InvalidElements == [failure |-> "InvalidElements"]

KeplerNotConverged ==
  /\ orbit.kepler.iter = KeplerMaxIter
  /\ ~JsLt(MathAbs(orbit.kepler.dE), KeplerTolerance)

(* C2 as stated: when the Kepler solve uses all 12 iterations without      *)
(* reaching the tolerance, the caller of the orbit propagator does not     *)
(* receive a position as an ordinary result.                               *)
C2_NonConvergenceFlagged ==
  (OrbitCalled /\ KeplerNotConverged) => orbit.out = Null

(* a call that ran the Newton iteration: the solver itself, or the        *)
(* propagator when it returned a position                                 *)
KeplerSolved ==
  \/ orbit.fn = "solveKeplerElliptic"
  \/ OrbitCalled /\ orbit.out # Null

(* C16: solveKeplerElliptic terminates for every mean anomaly and          *)
(* eccentricity after at least one and at most maxIter = 12 Newton         *)
(* iterations, and it stops before the 12th only when the last step |dE|   *)
(* is below the tolerance.                                                 *)
C16_AtMostTwelveIterations ==
  KeplerSolved
    => /\ orbit.kepler.iter \in 1..KeplerMaxIter
       /\ orbit.kepler.iter < KeplerMaxIter
            => JsLt(MathAbs(orbit.kepler.dE), KeplerTolerance)

(* a run that the cap ends: 12 iterations and the last step still large *)
C16_CapEndsTheLoopSeen ==
  /\ orbit.fn = "solveKeplerElliptic"
  /\ orbit.M = -Frac(25, 10)
  /\ orbit.elements.eccentricity = Frac(9, 10)
  /\ orbit.kepler.iter = KeplerMaxIter
  /\ JsGt(MathAbs(orbit.kepler.dE), Frac(1, 100))

(* C17: for every eccentricity in [0, 0.99] and every mean anomaly (a      *)
(* number), the Kepler solver converges within maxIter = 12 iterations,    *)
(* that is its last step is below the tolerance, and its result E          *)
(* satisfies |E - e sin E - M| < tolerance.                                *)
C17_ConvergesWithinTolerance ==
  (KeplerSolved /\ IsFinite(orbit.M)
     /\ JsGe(orbit.elements.eccentricity, 0)
     /\ JsLe(orbit.elements.eccentricity, Frac(99, 100)))
    => /\ JsLt(MathAbs(orbit.kepler.dE), KeplerTolerance)
       /\ JsLt(MathAbs(JsSub(JsSub(orbit.kepler.E,
                                   JsMul(orbit.elements.eccentricity,
                                         MathSin(orbit.kepler.E))),
                             orbit.M)),
               KeplerTolerance)

(* the angles of the model are resolved to AngleStep by the arc sine, arc  *)
(* cosine and arc tangent of either transform; away from the celestial     *)
(* poles the round trip stays within six steps                             *)
RoundTripTolerance == 6 * AngleStep

(* C19: for every valid equatorial coordinate, observer not at a pole and  *)
(* instant, horizontalToEquatorial(equatorialToHorizontal(eq, observer,    *)
(* instant), observer, instant) returns eq, RA compared modulo 360 (the    *)
(* claim's 1e-6 degrees is RoundTripTolerance here).                       *)
C19_RoundTripReturnsEquatorial ==
  (coord.fn = "horizontalToEquatorial" /\ Abs(coord.observer.latitude) < Num(90))
    => /\ IsFinite(coord.back.ra) /\ IsFinite(coord.back.dec)
       /\ Abs(coord.back.dec - coord.equatorial.dec) <= RoundTripTolerance
       /\ Abs(((coord.back.ra - coord.equatorial.ra + Num(540)) % Num(360))
                - Num(180)) <= RoundTripTolerance

(* C20: greenwichSiderealTime, localSiderealTime and calculateLST return   *)
(* an angle in [0, 360) for every finite instant and longitude, instants   *)
(* before J2000.0 (where 280.46061837 + 360.98564736629 * d is negative)   *)
(* included, and the local sidereal time is normalize(gst + longitude).    *)
C20_SiderealTimeInRange ==
  coord.fn = "localSiderealTime"
    => /\ coord.sidereal.gst.deg >= 0 /\ coord.sidereal.gst.deg < Num(360)
       /\ coord.sidereal.gst.ulps = 0
       /\ \/ coord.sidereal.lst.deg > 0
          \/ coord.sidereal.lst.deg = 0 /\ coord.sidereal.lst.ulps >= 0
       /\ \/ coord.sidereal.lst.deg < Num(360)
          \/ coord.sidereal.lst.deg = Num(360) /\ coord.sidereal.lst.ulps < 0
       /\ coord.sidereal.calculateLST >= 0
       /\ coord.sidereal.calculateLST < Num(360)
       /\ coord.sidereal.lst
            = astroNormalizeAngle(DblAdd(coord.sidereal.gst,
                                         coord.sidereal.longitude))

(* C18: for every valid elliptical element set (q > 0, 0 <= e < 1), the    *)
(* propagator evaluated at the perihelion time itself yields a             *)
(* heliocentric distance r equal to q. The claim allows 1e-6 AU; the finer *)
(* numbers carry a rounding noise of 1e-5 of q, so the distance is held to *)
(* 1e-4 AU here.                                                           *)
C18_RadiusAtPerihelionIsQ ==
  orbit.fn = "atPerihelion"
    => Abs(orbit.peri.r - orbit.elements.perihelionDistanceAu * Scale)
         <= Fine \div 10000

WellFormed(c) ==
  /\ NumberIsFinite(c.perihelionDistanceAu) /\ c.perihelionDistanceAu > 0
  /\ NumberIsFinite(c.eccentricity)
  /\ c.eccentricity >= 0 /\ c.eccentricity < Num(1)
  /\ NumberIsFinite(c.argPerihelionDeg) /\ NumberIsFinite(c.ascNodeDeg)
  /\ NumberIsFinite(c.inclinationDeg)
  /\ NewDate(c.perihelionTimeUtc) # InvalidDate

(* C3 as stated: computeCometHorizontalPositions returns without throwing, *)
(* and what it returns holds a position for every well-formed record of    *)
(* the list, whatever malformed records are in the list too.               *)
C3_BatchIsolatesBadRecords ==
  /\ batch.status # "thrown"
  /\ batch.status = "returned"
       => \A j \in 1..Len(batch.comets) :
            WellFormed(batch.comets[j])
              => \E k \in 1..Len(batch.out) :
                   batch.out[k].name = batch.comets[j].name

(* ------------------------------------------------------------------ *)
(* Claims about the horizon gate of starVisibility                      *)
(* ------------------------------------------------------------------ *)

(* C28: starVisibility with the default options reports visible = false   *)
(* whenever the target altitude is <= 0, for every magnitude and sky.     *)
C28_BelowHorizonNeverVisible ==
  (vis.fn = "starVisibility" /\ vis.opts = NoOpts
     /\ JsLe(vis.inputs.targetAltitudeDeg, 0))
    => ~vis.sv.visible

(* ------------------------------------------------------------------ *)
(* Claims about the mean anomaly                                        *)
(* ------------------------------------------------------------------ *)

(* C24: whenever the propagator returns a position, the mean anomaly it   *)
(* hands to the Kepler solver lies in [-pi, pi], before perihelion too.    *)
C24_MeanAnomalyReduced ==
  (orbit.fn = "cometHeliocentricEclipticJ2000" /\ orbit.out # Null)
    => (orbit.M >= -MathPI /\ orbit.M <= MathPI)

(* ------------------------------------------------------------------ *)
(* Claims about the inverse trigonometry of the transforms              *)
(* ------------------------------------------------------------------ *)

(* C23: no rounding overshoot of a computed sine reaches an inverse       *)
(* trigonometric function: for finite arguments the altitude returned by  *)
(* equatorialToHorizontal is a number, never NaN.                          *)
C23_AltitudeNeverNaN ==
  (coord.fn = "equatorialToHorizontal"
     /\ IsFinite(coord.equatorial.ra) /\ IsFinite(coord.equatorial.dec)
     /\ IsFinite(coord.observer.latitude)
     /\ IsFinite(coord.observer.longitude))
    => ~IsNaN(coord.out.altitude)

(* ------------------------------------------------------------------ *)
(* Claims about the advance of sidereal time                            *)
(* ------------------------------------------------------------------ *)

(* C21: at a fixed longitude the local sidereal time of a later instant,  *)
(* less than a day later and down to one millisecond later, is ahead of   *)
(* the earlier one modulo 360, for calculateLST and localSiderealTime.     *)
C21_SiderealTimeAdvances ==
  Len(calls) = 2
    => (calls[2].ret - calls[1].ret) % (360 * MicroDeg) > 0

(* ------------------------------------------------------------------ *)
(* Claims about the field-of-view test of the projections               *)
(* ------------------------------------------------------------------ *)

(* C22: for the same target, view centre and fov, projectToScreen,        *)
(* projectToScreenWithDistance, projectToScreenUnclamped, the inline       *)
(* projection of drawAllStars and findVisibilityBoundary all give the      *)
(* same answer to whether the target is in view.                           *)
C22_ProjectionsAgreeOnInView ==
  ProjCalled =>
    /\ proj.inView.projectToScreenWithDistance = proj.out.visible
    /\ proj.inView.projectToScreenUnclamped = proj.out.visible
    /\ proj.inView.drawAllStars = proj.out.visible
    /\ proj.inView.findVisibilityBoundary = proj.out.visible

(* ------------------------------------------------------------------ *)
(* Claims about the view of SkyViewer                                   *)
(* ------------------------------------------------------------------ *)

(* C27: after any sequence of mouse-drag and wheel events the fov is      *)
(* within [30, 120], the view altitude within [-90, 90] and the view       *)
(* azimuth within [0, 360).                                                *)
C27_ViewStaysInDomain ==
  /\ view.fov >= Num(30) /\ view.fov <= Num(120)
  /\ view.viewAngle.altitude >= Num(-90) /\ view.viewAngle.altitude <= Num(90)
  /\ view.viewAngle.azimuth >= 0 /\ view.viewAngle.azimuth < Num(360)

(* ------------------------------------------------------------------ *)
(* Claims about the Bortle class                                        *)
(* ------------------------------------------------------------------ *)

(* C25: after any sequence of slider updates, restores from localStorage, *)
(* 'storage' and 'stargazer:bortleScale' events, mode changes and          *)
(* location changes, effectiveBortleScale is an integer from 1 to 9.        *)
C25_BortleClassInRange ==
  effectiveBortleScale \in {Num(k) : k \in 1..9}

(* ------------------------------------------------------------------ *)
(* Claims about the satellite loader                                    *)
(* ------------------------------------------------------------------ *)

(* C26: satelliteLoading is true at every moment a request for the        *)
(* selected satellite group is in flight (one that has not been aborted),  *)
(* whatever superseded requests have settled in the meantime.               *)
C26_LoadingWhileFetchInFlight ==
  (\E f \in sat.fetches : ~f.aborted /\ f.group = sat.satelliteGroup)
    => sat.satelliteLoading

(* ------------------------------------------------------------------ *)
(* Claims about the SIMBAD resolver                                     *)
(* ------------------------------------------------------------------ *)

(* C29: a lookup of a valid coordinate is answered from the cache, with   *)
(* no upstream request, exactly when the key has an entry younger than one *)
(* hour, and then with the cached result (a cached 'no match' included);   *)
(* otherwise SIMBAD is queried: on success the entry of the key is         *)
(* replaced by the new result, stamped with the time of the lookup, and on *)
(* failure the status is 500 and the cache is left as it was.              *)
C29_CacheServesForOneHour ==
  (simbad.last.status \in {200, 500}) =>
    /\ simbad.last.upstream
         <=> ~(\E e \in simbad.last.entry : simbad.last.at - e.ts < 3600 * 1000)
    /\ ~simbad.last.upstream =>
         /\ simbad.last.status = 200 /\ simbad.last.cached
         /\ \E e \in simbad.last.entry : simbad.last.result = e.value
         /\ simbad.last.after = simbad.last.before
    /\ (simbad.last.upstream /\ simbad.last.status = 200) =>
         /\ ~simbad.last.cached
         /\ [key |-> simbad.last.key, ts |-> simbad.last.at,
             value |-> simbad.last.result] \in simbad.last.after
         /\ \A e \in simbad.last.after :
              e.key = simbad.last.key => e.value = simbad.last.result
         /\ {e \in simbad.last.after : e.key # simbad.last.key}
              = {e \in simbad.last.before : e.key # simbad.last.key}
    /\ simbad.last.status = 500 =>
         simbad.last.upstream /\ simbad.last.after = simbad.last.before

(* a cached 'no match' served one millisecond before it is an hour old *)
C29_NoMatchServedFromCache ==
  /\ simbad.last.status = 200 /\ simbad.last.cached
  /\ simbad.last.result = "null"
  /\ \E e \in simbad.last.entry : simbad.last.at - e.ts = 3600 * 1000 - 1

(* ------------------------------------------------------------------ *)
(* Claims about the comets endpoint                                     *)
(* ------------------------------------------------------------------ *)

(* C30: for every value of the 'limit' parameter the effective limit is a *)
(* number from 10 to 500, and a successful response holds exactly          *)
(* min(limit, number of comets with a finite distance q > 0) comets, in     *)
(* ascending order of perihelion distance.                                  *)
C30_PayloadBounded ==
  cometsApi.status = 200 =>
    /\ JsGe(cometsApi.limit, Num(10)) /\ JsLe(cometsApi.limit, Num(500))
    /\ Num(Len(cometsApi.comets))
         = MathMin(cometsApi.limit,
                   Num(Len(SelectSeq(cometsApi.all, HasPerihelionDistance))))
    /\ \A k \in 1..(Len(cometsApi.comets) - 1) :
         cometsApi.comets[k].perihelionDistanceAu
           <= cometsApi.comets[k + 1].perihelionDistanceAu

====
